---- MODULE Spec2Model ----
(***************************************************************************)
(* A model of the grip_genius climbing-video analysis core:                *)
(*   - DiffAnalyzer (weighted edit distance of two beta sequences),        *)
(*   - mergeDetections / groupHoldsToRoutes / clusterByColor (hold fusion  *)
(*     and route building),                                                *)
(*   - the three active-route selectors,                                   *)
(*   - the two ActionRecognizer state machines and RouteAnalyzer,          *)
(*   - detectTopReachWithCapture (the top-reach scan),                     *)
(*   - the shared PoseDetector and the pages that call it,                 *)
(*   - generateDailyReport / analyzeClimbVideo (the daily report).         *)
(* Each component has its own specification (SpecDiff, SpecMerge, ...);    *)
(* the variables of the other components stay at their idle values.        *)
(*                                                                         *)
(* Numbers: alignment costs are kept in half units (2 = 1.0, 1 = 0.5), so  *)
(* every cost the code computes in floating point is an exact integer      *)
(* here; confidences are kept in tenths (7 = 0.7).                         *)
(***************************************************************************)
EXTENDS Integers, Sequences, FiniteSets, TLC

VARIABLES
  \* ---- DiffAnalyzer.compare and the caller comparing two sequences
  dInA, dInB,      \* the two beta sequences the caller holds
  seqA, seqB,      \* arguments of the running compare call
  dp,              \* the DP table of the running call: dp[i+1][j+1] is dp[i][j]
  di, dj,          \* the backtrack cursor (i, j)
  operations,      \* the operation list being built (unshift = prepend)
  dpc,             \* "idle" | "backtrack"
  results,         \* the DiffResults returned so far: compare(A,B), compare(B,A)
  \* ---- mergeDetections (hold_detector.ts)
  frameResults,    \* the predictions handed to the loop so far, in loop order
  merged,          \* the MergedHold list being built
  mergedOut,       \* the list mergeDetections returns (after the noise filter)
  mpc,             \* "merging" | "returned"
  \* ---- route building (groupHoldsToRoutes, clusterByColor, findRouteEndpoints)
  rInput,          \* the holds handed to route building, in list order
  routes,          \* what groupHoldsToRoutes returned
  clusters,        \* what clusterByColor returned, in Map order
  endpoints,       \* what findRouteEndpoints returned for each colour group
  rpc,             \* "input", or the routine that has been called on rInput
  allHolds,        \* allHolds of groupHoldsToRoutes
  \* ---- active-route selection (three routines)
  routine,         \* which routine runs: "report" | "detectHolds" | "videoAnalyzer"
  colorVotes,      \* the colorVotes Map, as a list of entries in insertion order
  touches,         \* history: per colour, the hand and foot contacts the frames had
  vFrames,         \* the number of frames handled so far
  activeRoute,     \* the colour of the returned Route, None for null
  vpc,             \* "voting" | "returned"
  \* ---- the two ActionRecognizer classes (climb_report.ts, recognizer.ts)
  recognizer,      \* which class the instance is: "climbReport" | "legacy"
  limbStates,      \* per limb: state, holdId, lastPos (climbReport), timestamp (legacy)
  betaSequence,    \* the BetaActions recorded so far
  touchedHolds,    \* state.touchedHolds (climbReport)
  recActiveRoute,  \* state.activeRoute: the route's colour, None for null (climbReport)
  progress,        \* state.progress (climbReport)
  startTime,       \* this.startTime
  prevPose,        \* legacy: <<>> for null, else <<the pose of the previous call>>
  clock,           \* video.currentTime * 1000 of the next frame
  frames,          \* the number of update calls so far
  resets,          \* the number of reset calls so far
  lastOp,          \* "new" | "update" | "reset": the last call on the instance
  stay,            \* history: per limb, the hold it grabbed and has stayed near since
  duplicates,      \* history: <<limb, hold>> grabbed again while staying near it
  currentActions,  \* RouteAnalyzer: per limb, the hold it touches (None for null)
  firstFrame,      \* history: the time of the first frame processed since
                   \* construction or reset, -1 while there is none
  \* ---- detectTopReachWithCapture (climb_report.ts)
  middleFrameTimes, \* the argument: the times of the valid frames
  videoDuration,   \* video.duration
  sampleIndex,     \* the loop variable i
  sampled,         \* history: the frames estimatePoses was called on, with their times
  success,         \* the local variable success
  reachTime,       \* <<>> for undefined, else <<the time>>
  maxProgress,     \* the local variable maxProgress
  bestClimbTime,   \* the local variable bestClimbTime
  bestClimbProgress, \* the local variable bestClimbProgress
  tpc,             \* "idle" | "scanning" | "returned"
  \* ---- the shared PoseDetector and the callers analysing several videos
  page,            \* the caller: "legacyPage" | "betaPage" | "dailyReport"
  driverAt,        \* the video startAnalysis / generateDailyReport is at, or "done"
  analysis,        \* per video: where its analysis stands
  outstanding,     \* the number of unresolved estimatePoses calls on the detector
  frameCount,      \* per video: the estimatePoses calls resolved so far
  \* ---- the daily report: ClimbingDaily startAnalysis, generateDailyReport,
  \*      analyzeClimbVideo
  videoFiles,      \* the files of the batch, in input order
  videos,          \* the names of the video elements loaded so far
  batchAt,         \* the loop variable i of generateDailyReport (from 1)
  stage,           \* where analyzeClimbVideo stands for video i
  facts,           \* history: what the stages of the running attempt found
  attempts,        \* the attempts array
  report,          \* <<>> for null, else <<the attempts of the report>>
  bpc,             \* "idle" | "loading" | "analyzing" | "reported" | "failed"
  \* ---- detectHolds (hold_detector.ts)
  hFrameResults,   \* the local variable frameResults: per frame, its predictions
  hCorrectInput,   \* history: <<>>, or <<the list correctColors was called with>>
  hMerged,         \* history: merged of mergeDetections before its noise filter
  hFusionOut,      \* history: what mergeDetections returned
  hMergedHolds,    \* the local variable mergedHolds
  hRoutes,         \* routes
  hStages,         \* history: the stages run so far, in order
  hpc,             \* "idle" | "detected" | "corrected" | "returned"
  \* ---- collectValidFrames (climb_report.ts)
  timeRange,       \* the argument timeRange: [start, end]
  targetCount,     \* the argument targetCount
  currentTime,     \* the local currentTime, in units of 1 / (6 * targetCount)
  estimates,       \* the local attempts: the estimatePoses calls made so far
  validFrames,     \* the local validFrames
  cpc,             \* "idle" | "collecting" | "returned"
  \* ---- compileReport (climb_report.ts)
  cmAttempts,      \* the argument attempts
  cmReport,        \* <<>>, or <<the DailyReport returned>>
  cmpc,            \* "idle" | "called" | "returned"
  \* ---- correctColors (pose_detector.ts)
  ccPredictions,   \* the argument predictions
  ccImage,         \* the pixels sampled from imageData for each prediction
  ccClusters,      \* history: the result of kMeansClustering, <<>> when not run
  ccCorrected,     \* the CorrectedPrediction[] returned
  ccpc             \* "idle" | "called" | "returned"

diffVars == <<dInA, dInB, seqA, seqB, dp, di, dj, operations, dpc, results>>
mergeVars == <<frameResults, merged, mergedOut, mpc>>

routeVars == <<rInput, routes, clusters, endpoints, rpc, allHolds>>

voteVars == <<routine, colorVotes, touches, vFrames, activeRoute, vpc>>

recVars == <<recognizer, limbStates, betaSequence, touchedHolds, recActiveRoute,
             progress, startTime, prevPose, clock, frames, resets, lastOp,
             stay, duplicates, currentActions, firstFrame>>

topVars == <<middleFrameTimes, videoDuration, sampleIndex, sampled, success,
             reachTime, maxProgress, bestClimbTime, bestClimbProgress, tpc>>

\* The components that work on whole videos.
poseVars == <<page, driverAt, analysis, outstanding, frameCount>>

reportVars == <<videoFiles, videos, batchAt, stage, facts, attempts, report, bpc>>

detectVars == <<hFrameResults, hCorrectInput, hMerged, hFusionOut, hMergedHolds,
                hRoutes, hStages, hpc>>

collectVars == <<timeRange, targetCount, currentTime, estimates, validFrames, cpc>>

compileVars == <<cmAttempts, cmReport, cmpc>>

correctVars == <<ccPredictions, ccImage, ccClusters, ccCorrected, ccpc>>

extraVars == <<collectVars, compileVars, correctVars>>

videoVars == <<topVars, poseVars, reportVars, detectVars, extraVars>>

vars == <<diffVars, mergeVars, routeVars, voteVars, recVars, videoVars>>

notDiff == <<mergeVars, routeVars, voteVars, recVars, videoVars>>
notMerge == <<diffVars, routeVars, voteVars, recVars, videoVars>>
notRoute == <<diffVars, mergeVars, voteVars, recVars, videoVars>>
notVote == <<diffVars, mergeVars, routeVars, recVars, videoVars>>
notRec == <<diffVars, mergeVars, routeVars, voteVars, videoVars>>

VoteColors == {"yellow", "green"}

NoTouches == [c \in VoteColors |-> [hand |-> 0, foot |-> 0]]

None == "none"

\* The state of each component before it is used.
DiffIdle ==
  /\ seqA = <<>> /\ seqB = <<>> /\ dp = <<>> /\ di = 0 /\ dj = 0
  /\ operations = <<>> /\ dpc = "idle" /\ results = <<>>

DiffOff == dInA = <<>> /\ dInB = <<>> /\ DiffIdle

MergeIdle ==
  /\ frameResults = <<>> /\ merged = <<>> /\ mergedOut = <<>> /\ mpc = "merging"

RouteIdle ==
  /\ rInput = <<>> /\ routes = <<>> /\ clusters = <<>> /\ endpoints = <<>>
  /\ rpc = "input" /\ allHolds = <<>>

RecIdle ==
  /\ recognizer = None /\ limbStates = <<>> /\ betaSequence = <<>>
  /\ touchedHolds = {} /\ recActiveRoute = None /\ progress = 0 /\ startTime = 0
  /\ prevPose = <<>> /\ clock = 0 /\ frames = 0 /\ resets = 0 /\ lastOp = "new"
  /\ stay = <<>> /\ duplicates = {} /\ currentActions = <<>> /\ firstFrame = -1

VoteIdle ==
  /\ routine = None /\ colorVotes = <<>> /\ touches = NoTouches /\ vFrames = 0
  /\ activeRoute = None /\ vpc = "voting"

TopIdle ==
  /\ middleFrameTimes = <<>> /\ videoDuration = 0 /\ sampleIndex = 0
  /\ sampled = <<>> /\ success = FALSE /\ reachTime = <<>> /\ maxProgress = 0
  /\ bestClimbTime = 0 /\ bestClimbProgress = 0 /\ tpc = "idle"

PoseVideos == <<"A", "B">>

PoseVideoSet == {PoseVideos[k] : k \in 1..Len(PoseVideos)}

PoseIdle ==
  /\ page = None /\ driverAt = "done" /\ analysis = [v \in PoseVideoSet |-> "idle"]
  /\ outstanding = 0 /\ frameCount = [v \in PoseVideoSet |-> 0]

\* Nothing is known of an attempt before its analysis starts.
NoFacts ==
  [holdCallFailed |-> FALSE, poseCallFailed |-> FALSE, routes |-> -1,
   range |-> "notRun", valid |-> -1, route |-> "notRun", scanStarted |-> FALSE,
   threw |-> FALSE]

ReportIdle ==
  /\ videoFiles = <<>> /\ videos = <<>> /\ batchAt = 0 /\ stage = "idle"
  /\ facts = NoFacts /\ attempts = <<>> /\ report = <<>> /\ bpc = "idle"

DetectIdle ==
  /\ hFrameResults = <<>> /\ hCorrectInput = <<>> /\ hMerged = <<>>
  /\ hFusionOut = <<>> /\ hMergedHolds = <<>> /\ hRoutes = <<>>
  /\ hStages = <<>> /\ hpc = "idle"

CollectIdle ==
  /\ timeRange = [start |-> 0, end |-> 0] /\ targetCount = 0 /\ currentTime = 0
  /\ estimates = 0 /\ validFrames = <<>> /\ cpc = "idle"

CompileIdle == cmAttempts = <<>> /\ cmReport = <<>> /\ cmpc = "idle"

CorrectIdle ==
  /\ ccPredictions = <<>> /\ ccImage = <<>> /\ ccClusters = <<>>
  /\ ccCorrected = <<>> /\ ccpc = "idle"

ExtraIdle == CollectIdle /\ CompileIdle /\ CorrectIdle

VideoIdle == TopIdle /\ PoseIdle /\ ReportIdle /\ DetectIdle /\ ExtraIdle

Min2(a, b) == IF a <= b THEN a ELSE b
Min3(a, b, c) == Min2(a, Min2(b, c))

SeqsUpTo(S, n) == UNION {[1..k -> S] : k \in 0..n}

(***************************************************************************)
(* SequenceDiffer                                                          *)
(***************************************************************************)

\* The longest beta sequence the checks compare.
MaxLen == 3
\* BetaActions as far as getCost reads them (limb, holdId, type).
GrabLeftG1  == [type |-> "Grab", limb |-> "leftHand", holdId |-> "G1"]
StepRightG2 == [type |-> "Step", limb |-> "rightFoot", holdId |-> "G2"]
StepRightG3 == [type |-> "Step", limb |-> "rightFoot", holdId |-> "G3"]
HeelRightG2 == [type |-> "HeelHook", limb |-> "rightFoot", holdId |-> "G2"]

\* An absent itemA / itemB of a DiffOperation.
NoAction == [type |-> "none", limb |-> "none", holdId |-> "none"]

DiffActions == {GrabLeftG1, StepRightG2, StepRightG3, HeelRightG2}

\* Cost of an insertion or a deletion: 1.0, in half units.
GapCost == 2

\* Mutant: the same-type test answers before the exact-match test.
getCostTypeFirst(a, b) ==
  IF a.limb # b.limb THEN 2
  ELSE IF a.type = b.type THEN 1
  ELSE 2

\* Mutant: a same-type action on another hold costs a full substitution.
getCostHalfAsFull(a, b) ==
  IF a.limb # b.limb THEN 2
  ELSE LET sameHold == a.holdId = b.holdId
           sameType == a.type = b.type
       IN IF sameHold /\ sameType THEN 0
          ELSE 2

getCost(a, b) ==
  IF a.limb # b.limb THEN 2
  ELSE LET sameHold == a.holdId = b.holdId
           sameType == a.type = b.type
       IN IF sameHold /\ sameType THEN 0
          ELSE IF ~sameHold /\ sameType THEN 1
          ELSE 2

\* One row of the table, left to right: cur[k] is dp[i][k-1], prev[k] is dp[i-1][k-1].
RECURSIVE FillCells(_, _, _, _, _)
FillCells(A, B, prev, i, cur) ==
  LET j == Len(cur) IN
  IF j > Len(B) THEN cur
  ELSE FillCells(A, B, prev, i,
         Append(cur, Min3(prev[j + 1] + GapCost,
                          cur[j] + GapCost,
                          prev[j] + getCost(A[i], B[j]))))

RECURSIVE FillRows(_, _, _)
FillRows(A, B, rows) ==
  LET i == Len(rows) IN
  IF i > Len(A) THEN rows
  ELSE FillRows(A, B, Append(rows, FillCells(A, B, rows[i], i, <<GapCost * i>>)))

\* The filled table: row 0 is dp[0][j] = j, column 0 is dp[i][0] = i.
FillTable(A, B) == FillRows(A, B, <<[k \in 1..(Len(B) + 1) |-> GapCost * (k - 1)]>>)

Dp(i, j) == dp[i + 1][j + 1]

InitDiff ==
  /\ dInA \in SeqsUpTo(DiffActions, MaxLen)
  /\ dInB \in SeqsUpTo(DiffActions, MaxLen)
  /\ DiffIdle
  /\ MergeIdle
  /\ RouteIdle
  /\ VoteIdle
  /\ RecIdle
  /\ VideoIdle

\* compare(seqA, seqB) is entered: the table is filled, the cursor is at (n, m).
\* The caller first compares (A, B), then (B, A).
CompareCall ==
  /\ dpc = "idle"
  /\ Len(results) < 2
  /\ LET a == IF Len(results) = 0 THEN dInA ELSE dInB
         b == IF Len(results) = 0 THEN dInB ELSE dInA
     IN /\ seqA' = a
        /\ seqB' = b
        /\ dp' = FillTable(a, b)
        /\ di' = Len(a)
        /\ dj' = Len(b)
  /\ operations' = <<>>
  /\ dpc' = "backtrack"
  /\ UNCHANGED <<dInA, dInB, results, notDiff>>

DiagonalFirst ==
  /\ di > 0 /\ dj > 0
  /\ Dp(di, dj) = Dp(di - 1, dj - 1) + getCost(seqA[di], seqB[dj])

\* Mutant: the backtrack tests deletion before match/substitute.
BacktrackStepDeleteFirst ==
  /\ dpc = "backtrack"
  /\ di > 0 \/ dj > 0
  /\ IF di > 0 /\ Dp(di, dj) = Dp(di - 1, dj) + GapCost
     THEN /\ operations' = <<[type |-> "delete", itemA |-> seqA[di], itemB |-> NoAction]>>
                             \o operations
          /\ di' = di - 1
          /\ dj' = dj
     ELSE IF DiagonalFirst
     THEN LET cost == getCost(seqA[di], seqB[dj]) IN
          /\ operations' = <<[type |-> IF cost = 0 THEN "match" ELSE "substitute",
                              itemA |-> seqA[di], itemB |-> seqB[dj]]>> \o operations
          /\ di' = di - 1
          /\ dj' = dj - 1
     ELSE IF dj > 0 /\ Dp(di, dj) = Dp(di, dj - 1) + GapCost
     THEN /\ operations' = <<[type |-> "insert", itemA |-> NoAction, itemB |-> seqB[dj]]>>
                             \o operations
          /\ di' = di
          /\ dj' = dj - 1
     ELSE UNCHANGED <<operations, di, dj>>
  /\ UNCHANGED <<dInA, dInB, seqA, seqB, dp, dpc, results, notDiff>>

\* One iteration of the backtrack loop.
BacktrackStep ==
  /\ dpc = "backtrack"
  /\ di > 0 \/ dj > 0
  /\ IF DiagonalFirst
     THEN LET cost == getCost(seqA[di], seqB[dj]) IN
          /\ operations' = <<[type |-> IF cost = 0 THEN "match" ELSE "substitute",
                              itemA |-> seqA[di], itemB |-> seqB[dj]]>> \o operations
          /\ di' = di - 1
          /\ dj' = dj - 1
     ELSE IF di > 0 /\ Dp(di, dj) = Dp(di - 1, dj) + GapCost
     THEN /\ operations' = <<[type |-> "delete", itemA |-> seqA[di], itemB |-> NoAction]>>
                             \o operations
          /\ di' = di - 1
          /\ dj' = dj
     ELSE IF dj > 0 /\ Dp(di, dj) = Dp(di, dj - 1) + GapCost
     THEN /\ operations' = <<[type |-> "insert", itemA |-> NoAction, itemB |-> seqB[dj]]>>
                             \o operations
          /\ di' = di
          /\ dj' = dj - 1
     ELSE UNCHANGED <<operations, di, dj>>
  /\ UNCHANGED <<dInA, dInB, seqA, seqB, dp, dpc, results, notDiff>>

\* The loop has ended: { cost: dp[n][m], operations } is returned.
CompareReturn ==
  /\ dpc = "backtrack"
  /\ di = 0 /\ dj = 0
  /\ results' = Append(results, [cost |-> Dp(Len(seqA), Len(seqB)),
                                 operations |-> operations])
  /\ dpc' = "idle"
  /\ UNCHANGED <<dInA, dInB, seqA, seqB, dp, di, dj, operations, notDiff>>

NextDiff ==
  \/ CompareCall
  \/ BacktrackStep
  \/ CompareReturn

SpecDiff == InitDiff /\ [][NextDiff]_vars

(***************************************************************************)
(* SequenceDiffer: properties                                              *)
(***************************************************************************)

\* The cost of pairing a with b, as the design states it (half units).
PairCost(a, b) ==
  CASE a.limb # b.limb -> 2
    [] a.limb = b.limb /\ a.holdId = b.holdId /\ a.type = b.type -> 0
    [] a.limb = b.limb /\ a.holdId # b.holdId /\ a.type = b.type -> 1
    [] OTHER -> 2

\* The least total cost over all alignments of A with B, by the first step of
\* the alignment (delete Head(A), insert Head(B), or pair the two heads).
RECURSIVE MinAlignCost(_, _)
MinAlignCost(A, B) ==
  IF A = <<>> THEN GapCost * Len(B)
  ELSE IF B = <<>> THEN GapCost * Len(A)
  ELSE Min3(GapCost + MinAlignCost(Tail(A), B),
            GapCost + MinAlignCost(A, Tail(B)),
            PairCost(Head(A), Head(B)) + MinAlignCost(Tail(A), Tail(B)))

OpTypes(ops) == [k \in 1..Len(ops) |-> ops[k].type]

OpCost(op) ==
  IF op.type \in {"insert", "delete"} THEN GapCost ELSE PairCost(op.itemA, op.itemB)

RECURSIVE OpsCost(_)
OpsCost(ops) == IF ops = <<>> THEN 0 ELSE OpCost(Head(ops)) + OpsCost(Tail(ops))

\* The items an operation list consumes on one side, in order.
RECURSIVE ItemsOf(_, _)
ItemsOf(ops, side) ==
  IF ops = <<>> THEN <<>>
  ELSE LET it == IF side = "A" THEN Head(ops).itemA ELSE Head(ops).itemB
       IN (IF it = NoAction THEN <<>> ELSE <<it>>) \o ItemsOf(Tail(ops), side)

\* An operation list with insert and delete swapped and itemA/itemB exchanged.
Mirror(ops) ==
  [k \in 1..Len(ops) |->
     [type  |-> CASE ops[k].type = "insert" -> "delete"
                  [] ops[k].type = "delete" -> "insert"
                  [] OTHER -> ops[k].type,
      itemA |-> ops[k].itemB,
      itemB |-> ops[k].itemA]]

\* C3: for every non-empty S, compare(S, S) returns cost 0 and |S| operations,
\* each of type match and pairing S[k] with S[k].
C3_DiffIdentity ==
  (Len(results) >= 1 /\ dInA = dInB /\ dInA # <<>>) =>
    /\ results[1].cost = 0
    /\ Len(results[1].operations) = Len(dInA)
    /\ \A k \in 1..Len(dInA) :
         results[1].operations[k] = [type |-> "match", itemA |-> dInA[k], itemB |-> dInA[k]]

C3_Witness ==
  /\ Len(results) >= 1
  /\ dInA = dInB
  /\ dInA = <<GrabLeftG1, StepRightG2, HeelRightG2>>

\* C4 as stated: compare(B, A) has the cost of compare(A, B) and its operation
\* list is that of compare(A, B) with insert/delete swapped, position by position.
C4_MirrorExact ==
  Len(results) = 2 =>
    /\ results[2].cost = results[1].cost
    /\ results[2].operations = Mirror(results[1].operations)

\* C4 amended: compare(B, A) has the cost of compare(A, B); the mirrored list of
\* compare(A, B) is an alignment of B with A of that same cost; it is the list
\* compare(B, A) returns whenever both sequences have at most 2 actions.
C4_MirrorCost ==
  Len(results) = 2 =>
    /\ results[2].cost = results[1].cost
    /\ OpsCost(Mirror(results[1].operations)) = results[2].cost
    /\ ItemsOf(Mirror(results[1].operations), "A") = dInB
    /\ ItemsOf(Mirror(results[1].operations), "B") = dInA
    /\ (Len(dInA) <= 2 /\ Len(dInB) <= 2) =>
         results[2].operations = Mirror(results[1].operations)

C4_Witness ==
  /\ Len(results) = 2
  /\ Len(dInA) = 2 /\ Len(dInB) = 1
  /\ \E k \in 1..Len(results[1].operations) : results[1].operations[k].type = "delete"
  /\ \E k \in 1..Len(results[2].operations) : results[2].operations[k].type = "insert"

ExampleA == <<GrabLeftG1, StepRightG2>>
ExampleB == <<GrabLeftG1, StepRightG3>>

\* C5: the returned cost is the least total cost over all alignments of A with
\* B (gap 1, pair cost 1 / 0 / 0.5 / 1); for A = [Grab leftHand G1, Step
\* rightFoot G2], B = [Grab leftHand G1, Step rightFoot G3] the cost is 0.5 and
\* the operations are [match, substitute].
C5_MinimumCost ==
  (dpc = "idle" /\ Len(results) = 1) =>
    /\ results[1].cost = MinAlignCost(dInA, dInB)
    /\ (dInA = ExampleA /\ dInB = ExampleB) =>
         /\ results[1].cost = 1
         /\ OpTypes(results[1].operations) = <<"match", "substitute">>

C5_Witness ==
  /\ dpc = "idle" /\ Len(results) = 1
  /\ dInA = ExampleA /\ dInB = ExampleB
  /\ results[1].cost = 1

\* The items on one side of the operations of the given types, in order.
RECURSIVE SideItems(_, _, _)
SideItems(ops, types, side) ==
  IF ops = <<>> THEN <<>>
  ELSE (IF Head(ops).type \in types
        THEN <<IF side = "A" THEN Head(ops).itemA ELSE Head(ops).itemB>>
        ELSE <<>>) \o SideItems(Tail(ops), types, side)

\* Some branch of the backtrack loop body applies at the cursor.
BranchApplies ==
  \/ DiagonalFirst
  \/ di > 0 /\ Dp(di, dj) = Dp(di - 1, dj) + GapCost
  \/ dj > 0 /\ Dp(di, dj) = Dp(di, dj - 1) + GapCost

\* The result of compare(A, B) is a valid alignment of A with B realizing cost.
ValidAlignment(r, A, B) ==
  LET ops == r.operations
      longer == IF Len(A) >= Len(B) THEN Len(A) ELSE Len(B)
  IN /\ SideItems(ops, {"match", "substitute", "delete"}, "A") = A
     /\ SideItems(ops, {"match", "substitute", "insert"}, "B") = B
     /\ \A k \in 1..Len(ops) : ops[k].type \in {"match", "substitute", "insert", "delete"}
     /\ Len(ops) >= longer /\ Len(ops) <= Len(A) + Len(B)
     /\ \A k \in 1..Len(ops) :
          ops[k].type = "match" => PairCost(ops[k].itemA, ops[k].itemB) = 0
     /\ OpsCost(ops) = r.cost

\* C39: compare terminates (every iteration of the backtrack loop takes a
\* branch, each of which moves the cursor towards (0, 0), and the list never
\* has more operations than the cursor has moved), and the returned list is
\* a valid alignment: its A items are A in order, its B items are B in
\* order, it has between max(n, m) and n + m operations, a match pairs items
\* of cost 0, and the costs of the operations add up to the returned cost.
C39_ValidAlignment ==
  /\ (dpc = "backtrack" /\ (di > 0 \/ dj > 0)) => BranchApplies
  /\ dpc = "backtrack" =>
       /\ di \in 0..Len(seqA) /\ dj \in 0..Len(seqB)
       /\ Len(operations) <= (Len(seqA) - di) + (Len(seqB) - dj)
  /\ Len(results) >= 1 => ValidAlignment(results[1], dInA, dInB)
  /\ Len(results) = 2 => ValidAlignment(results[2], dInB, dInA)

\* An alignment with a match, a substitution of half cost and a deletion.
C39_Witness ==
  /\ Len(results) >= 1
  /\ Len(dInA) = 3 /\ Len(dInB) = 2
  /\ OpTypes(results[1].operations) = <<"match", "substitute", "delete">>
  /\ results[1].cost = 3

(***************************************************************************)
(* DetectionFusion: mergeDetections (hold_detector.ts)                     *)
(*                                                                         *)
(* Coordinates are integer pixels.  A MergedHold's avgX / avgY is the      *)
(* quotient the code computes, kept as an exact fraction [num, den];       *)
(* distances are compared by their squares.                                *)
(***************************************************************************)

\* How many predictions the frames hand to mergeDetections in the checks.
MaxCands == 3
\* minConfidence of detectHolds / detectMultiFrame (0.5), in tenths.
MinConfidence == 5
\* mergeThreshold of detectHolds / mergeDetections, in pixels.
MergeThreshold == 40
\* Best confidence below which a single-frame merge is noise (0.7), in tenths.
NoiseConfidence == 7

\* Detector classes: the hold class name split at '-' with "-hold" removed.
YellowHold == <<"yellow">>
YellowPurpleHold == <<"yellow", "purple">>
GreenHold == <<"green">>
HoldClasses == {YellowHold, YellowPurpleHold, GreenHold}

\* holdClass.replace('-hold', '').split('-')[0]
getMainColor(class) == class[1]

\* Three centres: P2 is 39 px from P1, P3 is exactly 40 px from P1 and 25 px from P2.
CandPoints == {<<100, 100>>, <<100, 139>>, <<124, 132>>}
Confidences == {4, 6, 7, 9}

RawPredictions ==
  {[x |-> p[1], y |-> p[2], confidence |-> c, class |-> k] :
     p \in CandPoints, c \in Confidences, k \in HoldClasses}

\* detectMultiFrame keeps the predictions with confidence >= minConfidence.
PassesFilter(p) == p.confidence >= MinConfidence

Frac(n, d) == [num |-> n, den |-> d]

RECURSIVE SumX(_)
SumX(preds) == IF preds = <<>> THEN 0 ELSE Head(preds).x + SumX(Tail(preds))
RECURSIVE SumY(_)
SumY(preds) == IF preds = <<>> THEN 0 ELSE Head(preds).y + SumY(Tail(preds))

\* sqrt((px - ax)^2 + (py - ay)^2) < limit, for fractions ax, ay.
DistLess(px, py, ax, ay, limit) ==
  /\ limit > 0
  /\ (px * ax.den - ax.num) * (px * ax.den - ax.num) * ay.den * ay.den
       + (py * ay.den - ay.num) * (py * ay.den - ay.num) * ax.den * ax.den
     < limit * limit * ax.den * ax.den * ay.den * ay.den

\* Index of the first merge of the prediction's colour within mergeThreshold, or 0.
FirstMatch(pred, ms) ==
  LET hits == {k \in 1..Len(ms) :
                 /\ DistLess(pred.x, pred.y, ms[k].avgX, ms[k].avgY, MergeThreshold)
                 /\ getMainColor(pred.class) = ms[k].color}
  IN IF hits = {} THEN 0 ELSE CHOOSE k \in hits : \A h \in hits : k <= h

\* Mutant: the centre is updated as the mean of the old centre and the new one.
AbsorbIntoHalving(m, pred) ==
  [predictions |-> Append(m.predictions, pred),
   avgX |-> Frac(m.avgX.num + pred.x * m.avgX.den, 2 * m.avgX.den),
   avgY |-> Frac(m.avgY.num + pred.y * m.avgY.den, 2 * m.avgY.den),
   frameCount |-> m.frameCount + 1,
   color |-> m.color]

\* m after pred was pushed: the centre is recomputed over all its predictions.
AbsorbInto(m, pred) ==
  LET ps == Append(m.predictions, pred) IN
  [predictions |-> ps,
   avgX |-> Frac(SumX(ps), Len(ps)),
   avgY |-> Frac(SumY(ps), Len(ps)),
   frameCount |-> m.frameCount + 1,
   color |-> m.color]

NewMerge(pred) ==
  [predictions |-> <<pred>>,
   avgX |-> Frac(pred.x, 1),
   avgY |-> Frac(pred.y, 1),
   frameCount |-> 1,
   color |-> getMainColor(pred.class)]

RECURSIVE BestOf(_)
\* predictions.reduce((a, b) => a.confidence > b.confidence ? a : b)
BestOf(preds) ==
  IF Len(preds) = 1 THEN preds[1]
  ELSE LET a == BestOf(SubSeq(preds, 1, Len(preds) - 1))
           b == preds[Len(preds)]
       IN IF a.confidence > b.confidence THEN a ELSE b

\* Mutant: every single-frame merge is dropped, whatever its confidence.
IsNoiseAnySingle(m) == m.frameCount = 1

\* The noise filter drops m.
IsNoise(m) == m.frameCount = 1 /\ BestOf(m.predictions).confidence < NoiseConfidence

KeepMerge(m) == ~IsNoise(m)

InitMerge ==
  /\ MergeIdle
  /\ DiffOff
  /\ RouteIdle
  /\ VoteIdle
  /\ RecIdle
  /\ VideoIdle

\* One iteration of the loop over the frames' predictions.
Absorb(pred) ==
  /\ mpc = "merging"
  /\ Len(frameResults) < MaxCands
  /\ PassesFilter(pred)
  /\ frameResults' = Append(frameResults, pred)
  /\ LET k == FirstMatch(pred, merged) IN
       merged' = IF k # 0
                 THEN [merged EXCEPT ![k] = AbsorbInto(merged[k], pred)]
                 ELSE Append(merged, NewMerge(pred))
  /\ UNCHANGED <<mergedOut, mpc, notMerge>>

\* The loop has ended: the noise filter runs and the list is returned.
FilterNoise ==
  /\ mpc = "merging"
  /\ mergedOut' = SelectSeq(merged, KeepMerge)
  /\ mpc' = "returned"
  /\ UNCHANGED <<frameResults, merged, notMerge>>

NextMerge ==
  \/ \E pred \in RawPredictions : Absorb(pred)
  \/ FilterNoise

SpecMerge == InitMerge /\ [][NextMerge]_vars

(***************************************************************************)
(* DetectionFusion: properties                                             *)
(***************************************************************************)

AllSame(preds) ==
  \A k \in 1..Len(preds) :
    /\ preds[k].x = preds[1].x
    /\ preds[k].y = preds[1].y
    /\ getMainColor(preds[k].class) = getMainColor(preds[1].class)

\* C8 as stated: merging k >= 1 duplicates (same position, same colour, any
\* confidence that passed the detection filter) returns exactly one MergedHold,
\* with frameCount k.
C8_DuplicatesMergeToOne ==
  (mpc = "returned" /\ Len(frameResults) >= 1 /\ AllSame(frameResults)) =>
    /\ Len(mergedOut) = 1
    /\ mergedOut[1].frameCount = Len(frameResults)

\* C8 amended: k >= 2 duplicates, or one candidate of confidence at least 0.7,
\* return exactly one MergedHold with frameCount k; one candidate of confidence
\* below 0.7 returns none.
C8_DuplicatesMergeUnlessNoise ==
  (mpc = "returned" /\ Len(frameResults) >= 1 /\ AllSame(frameResults)) =>
    IF Len(frameResults) = 1 /\ frameResults[1].confidence < NoiseConfidence
    THEN mergedOut = <<>>
    ELSE /\ Len(mergedOut) = 1
         /\ mergedOut[1].frameCount = Len(frameResults)

C8_Witness ==
  /\ mpc = "returned"
  /\ Len(frameResults) = 3
  /\ AllSame(frameResults)
  /\ \A k \in 1..3 : frameResults[k].confidence < NoiseConfidence
  /\ Len(mergedOut) = 1

\* C9: after each absorbed candidate every MergedHold has frameCount =
\* predictions.length, its centre is the arithmetic mean of its predictions'
\* centres, and every prediction of it has its colour.
C9_MergedHoldInvariant ==
  \A k \in 1..Len(merged) :
    LET m == merged[k] IN
    /\ m.frameCount = Len(m.predictions)
    /\ m.avgX.num * Len(m.predictions) = SumX(m.predictions) * m.avgX.den
    /\ m.avgY.num * Len(m.predictions) = SumY(m.predictions) * m.avgY.den
    /\ \A q \in 1..Len(m.predictions) : getMainColor(m.predictions[q].class) = m.color

C9_Witness ==
  \E k \in 1..Len(merged) :
    /\ Len(merged[k].predictions) = 3
    /\ merged[k].predictions[1].y # merged[k].predictions[2].y
    /\ merged[k].predictions[2].y # merged[k].predictions[3].y
    /\ merged[k].predictions[1].class # merged[k].predictions[2].class

(***************************************************************************)
(* RouteBuilder: groupHoldsToRoutes (hold_detector.ts), clusterByColor     *)
(* (hold_detection_pipeline.ts), groupByColor / findRouteEndpoints         *)
(* (api/roboflow)                                                          *)
(***************************************************************************)

\* The longest hold list handed to route building.
MaxHolds == 6
MIN_HOLDS_PER_ROUTE == 5

RouteColors == {"yellow", "green"}

\* Vertical coordinates of the holds (y small = high on the wall); three
\* values, so that a group has both ties and distinct heights.
RouteYs == {100, 200, 300}

\* The x of the k-th hold of the list: holds are at distinct places.
RouteX(k) == 50 * k

\* Array.prototype.sort with comparator (a, b) => key(a) - key(b), where
\* keys[i] is the key of seq[i]: ascending and stable.
SortBy(seq, keys) ==
  LET n == Len(seq)
      rank(i) == Cardinality({j \in 1..n :
                    \/ keys[j] < keys[i]
                    \/ (keys[j] = keys[i] /\ j < i)}) + 1
  IN [k \in 1..n |-> seq[CHOOSE i \in 1..n : rank(i) = k]]

\* The keys of a Map filled by one pass over the list, in insertion order.
RECURSIVE ColorsInOrder(_)
ColorsInOrder(hs) ==
  IF hs = <<>> THEN <<>>
  ELSE LET front == ColorsInOrder(SubSeq(hs, 1, Len(hs) - 1))
           c == hs[Len(hs)].color
       IN IF \E k \in 1..Len(front) : front[k] = c THEN front ELSE Append(front, c)

ColorGroup(hs, c) == SelectSeq(hs, LAMBDA h : h.color = c)

\* `${order}`: the decimal string of an ordinal.
DecimalString(k) == <<"1", "2", "3", "4", "5", "6", "7", "8", "9", "10">>[k]

\* Mutation of RouteHold: ordinals counted from the top.
RouteHoldOrderFromTop(m, i, n) ==
  [id |-> IF i = 0 THEN <<m.color, "TOP">> ELSE <<m.color, DecimalString(i + 1)>>,
   x |-> m.x, y |-> m.y, color |-> m.color, isTop |-> (i = 0), order |-> i + 1]

\* Mutation of RouteHold: the topmost hold is named by its ordinal too.
RouteHoldTopNumbered(m, i, n) ==
  [id |-> <<m.color, DecimalString(n - i)>>,
   x |-> m.x, y |-> m.y, color |-> m.color, isTop |-> (i = 0), order |-> n - i]

\* The DetectedHold built for sorted[i] (i from 0) of a group of n holds; the
\* id `${color}_TOP` or `${color}_${order}` is kept as the pair of its parts.
RouteHold(m, i, n) ==
  [id |-> IF i = 0 THEN <<m.color, "TOP">> ELSE <<m.color, DecimalString(n - i)>>,
   x |-> m.x, y |-> m.y, color |-> m.color, isTop |-> (i = 0), order |-> n - i]

HoldYs(hs) == [k \in 1..Len(hs) |-> hs[k].y]

BuildRoute(color, groupHolds) ==
  LET sorted == SortBy(groupHolds, HoldYs(groupHolds))
      n == Len(sorted)
      routeHolds == [k \in 1..n |-> RouteHold(sorted[k], k - 1, n)]
  IN [color |-> color, holds |-> routeHolds,
      topHold |-> IF n > 0 THEN routeHolds[1] ELSE None,
      startHold |-> IF n > 0 THEN routeHolds[n] ELSE None]

NegHoldCounts(rs) == [k \in 1..Len(rs) |-> 0 - Len(rs[k].holds)]

\* allHolds of groupHoldsToRoutes: the holds of the groups that are kept, in
\* the order of the colour groups.
RECURSIVE allHoldsOf(_, _)
allHoldsOf(mergedHolds, colors) ==
  IF colors = <<>> THEN <<>>
  ELSE LET groupHolds == ColorGroup(mergedHolds, Head(colors))
       IN (IF Len(groupHolds) < MIN_HOLDS_PER_ROUTE THEN <<>>
           ELSE BuildRoute(Head(colors), groupHolds).holds)
          \o allHoldsOf(mergedHolds, Tail(colors))

groupHoldsToRoutes(mergedHolds) ==
  LET colors == ColorsInOrder(mergedHolds)
      kept == SelectSeq(colors,
                LAMBDA c : ~(Len(ColorGroup(mergedHolds, c)) < MIN_HOLDS_PER_ROUTE))
      built == [k \in 1..Len(kept) |-> BuildRoute(kept[k], ColorGroup(mergedHolds, kept[k]))]
  IN SortBy(built, NegHoldCounts(built))

\* One entry of the Map clusterByColor returns.
ClusterRoute(color, groupHolds) ==
  LET sorted == SortBy(groupHolds, HoldYs(groupHolds))
  IN IF Len(groupHolds) > 0
     THEN [color |-> color, holds |-> groupHolds,
           topHold |-> sorted[1], startHold |-> sorted[Len(sorted)]]
     ELSE [color |-> color, holds |-> groupHolds]

clusterByColor(holds) ==
  LET colors == ColorsInOrder(holds)
  IN [k \in 1..Len(colors) |-> ClusterRoute(colors[k], ColorGroup(holds, colors[k]))]

groupByColor(predictions) ==
  LET colors == ColorsInOrder(predictions)
  IN [k \in 1..Len(colors) |->
        [color |-> colors[k], predictions |-> ColorGroup(predictions, colors[k])]]

findRouteEndpoints(predictions) ==
  IF Len(predictions) = 0
  THEN [top |-> None, start |-> None]
  ELSE LET sorted == SortBy(predictions, HoldYs(predictions))
       IN [top |-> sorted[1], start |-> sorted[Len(sorted)]]

InitRoute ==
  /\ RouteIdle
  /\ DiffOff
  /\ MergeIdle
  /\ VoteIdle
  /\ RecIdle
  /\ VideoIdle

\* One more hold in the list that route building will be called with.
AddHold(color, y) ==
  /\ rpc = "input"
  /\ Len(rInput) < MaxHolds
  /\ rInput' = Append(rInput, [color |-> color, x |-> RouteX(Len(rInput) + 1), y |-> y])
  /\ UNCHANGED <<routes, clusters, endpoints, rpc, allHolds, notRoute>>

\* The list is that of a wall with two routes of five holds each, the holds
\* of the two colours in turn from the top down.
AddWall ==
  /\ rpc = "input"
  /\ rInput = <<>>
  /\ rInput' = [k \in 1..(2 * MIN_HOLDS_PER_ROUTE) |->
                  [color |-> IF k % 2 = 1 THEN "green" ELSE "yellow",
                   x |-> RouteX(k), y |-> 100 * ((k + 1) \div 2)]]
  /\ UNCHANGED <<routes, clusters, endpoints, rpc, allHolds, notRoute>>

GroupHoldsToRoutes ==
  /\ rpc = "input"
  /\ rpc' = "groupHoldsToRoutes"
  /\ routes' = groupHoldsToRoutes(rInput)
  /\ allHolds' = allHoldsOf(rInput, ColorsInOrder(rInput))
  /\ UNCHANGED <<rInput, clusters, endpoints, notRoute>>

ClusterByColor ==
  /\ rpc = "input"
  /\ rpc' = "clusterByColor"
  /\ clusters' = clusterByColor(rInput)
  /\ UNCHANGED <<rInput, routes, endpoints, allHolds, notRoute>>

\* groupByColor, then findRouteEndpoints on every group.
FindRouteEndpoints ==
  /\ rpc = "input"
  /\ rpc' = "findRouteEndpoints"
  /\ endpoints' =
       LET groups == groupByColor(rInput)
       IN [k \in 1..Len(groups) |->
             [color |-> groups[k].color, holds |-> groups[k].predictions,
              ends |-> findRouteEndpoints(groups[k].predictions)]]
  /\ UNCHANGED <<rInput, routes, clusters, allHolds, notRoute>>

NextRoute ==
  \/ \E color \in RouteColors, y \in RouteYs : AddHold(color, y)
  \/ AddWall
  \/ GroupHoldsToRoutes
  \/ ClusterByColor
  \/ FindRouteEndpoints

SpecRoute == InitRoute /\ [][NextRoute]_vars

(***************************************************************************)
(* RouteBuilder: properties                                                *)
(***************************************************************************)

\* C6 as stated: every route surfaced by route building, by groupHoldsToRoutes
\* and by clusterByColor alike, has at least MIN_HOLDS_PER_ROUTE holds.
C6_NoSmallRoute ==
  /\ rpc = "groupHoldsToRoutes" =>
       \A k \in 1..Len(routes) : Len(routes[k].holds) >= MIN_HOLDS_PER_ROUTE
  /\ rpc = "clusterByColor" =>
       \A k \in 1..Len(clusters) : Len(clusters[k].holds) >= MIN_HOLDS_PER_ROUTE

IsTopAndStart(holds, top, start) ==
  /\ \E k \in 1..Len(holds) : holds[k].x = top.x /\ holds[k].y = top.y
  /\ \E k \in 1..Len(holds) : holds[k].x = start.x /\ holds[k].y = start.y
  /\ \A k \in 1..Len(holds) : top.y <= holds[k].y /\ holds[k].y <= start.y

\* C7: in every built route topHold has the least y and startHold the greatest
\* y of the route's holds; where holds carry an ordinal (groupHoldsToRoutes),
\* topHold's ordinal is the greatest of the route and startHold's is 1.
C7_TopAndStart ==
  /\ rpc = "groupHoldsToRoutes" =>
       \A k \in 1..Len(routes) :
         LET r == routes[k] IN
         /\ IsTopAndStart(r.holds, r.topHold, r.startHold)
         /\ \A q \in 1..Len(r.holds) : r.holds[q].order <= r.topHold.order
         /\ r.startHold.order = 1
  /\ rpc = "clusterByColor" =>
       \A k \in 1..Len(clusters) :
         IsTopAndStart(clusters[k].holds, clusters[k].topHold, clusters[k].startHold)
  /\ rpc = "findRouteEndpoints" =>
       \A k \in 1..Len(endpoints) :
         IsTopAndStart(endpoints[k].holds, endpoints[k].ends.top, endpoints[k].ends.start)

\* A route of groupHoldsToRoutes whose holds came in unsorted, with a tie in y.
C7_Witness ==
  /\ rpc = "groupHoldsToRoutes"
  /\ Len(routes) = 1
  /\ Len(routes[1].holds) = 5
  /\ routes[1].topHold.y < routes[1].startHold.y
  /\ routes[1].topHold.x > routes[1].startHold.x
  /\ routes[1].holds[2].y = routes[1].holds[3].y
  /\ Len(rInput) = 6

(***************************************************************************)
(* ActiveRouteVoter: detectActiveRouteFromValidFrames (climb_report.ts),   *)
(* detectActiveRoute (hold_detector.ts), VideoAnalyzer.determineActiveRoute*)
(***************************************************************************)

\* The number of frames a voting routine is given.
MaxVoteFrames == 2
VoteRoutines == {"report", "detectHolds", "videoAnalyzer"}

\* The wall: a yellow and a green route of five holds each, 200 px apart.
VoteHolds ==
  [k \in 1..10 |->
     [x |-> IF k <= 5 THEN 100 ELSE 300,
      y |-> 100 * (IF k <= 5 THEN k ELSE k - 5),
      width |-> 20, height |-> 20,
      color |-> IF k <= 5 THEN "yellow" ELSE "green"]]

VoteRoutes == <<"yellow", "green">>

\* routes.find(r => r.color === color) / routes.get(colorName): the route's
\* colour, None when there is no such route.
RouteOfColor(color) ==
  IF \E k \in 1..Len(VoteRoutes) : VoteRoutes[k] = color THEN color ELSE None

\* Keypoints a pose can put a wrist or an ankle at (score in tenths): on a
\* yellow hold, on a green hold, away from every hold, on a yellow hold with a
\* low score, and 60 px beside a yellow hold.
VoteKeypoints ==
  { [x |-> 110, y |-> 300, score |-> 9],
    [x |-> 310, y |-> 300, score |-> 9],
    [x |-> 200, y |-> 800, score |-> 9],
    [x |-> 110, y |-> 300, score |-> 4],
    [x |-> 160, y |-> 300, score |-> 9] }

ValidMinConfidence == 4

\* collectValidFrames keeps a frame only if all four scores exceed 0.4.
ValidKeypoints == {kp \in VoteKeypoints : kp.score > ValidMinConfidence}

TouchThreshold == 80
DetectTouchDistance == 50
DetectMinScore == 3
WristMinScore == 5
WristMargin == 30

DistSq(x1, y1, x2, y2) == (x1 - x2) * (x1 - x2) + (y1 - y2) * (y1 - y2)

\* The loop of findNearestHoldInRoute / findNearestHold: the index of the
\* first hold at the least distance among those closer than maxDist, 0 for null.
NearestWithin(point, holds, maxDist) ==
  LET d(k) == DistSq(point.x, point.y, holds[k].x, holds[k].y)
      near == {k \in 1..Len(holds) : d(k) < maxDist * maxDist}
  IN IF near = {} THEN 0
     ELSE CHOOSE k \in near : \A q \in near : d(k) < d(q) \/ (d(k) = d(q) /\ k <= q)

findNearestHoldInRoute(point, holds, maxDist) == NearestWithin(point, holds, maxDist)

detectorFindNearestHold(point, holds, maxDist) == NearestWithin(point, holds, maxDist)

EntryOf(cv, color) ==
  IF \E k \in 1..Len(cv) : cv[k].color = color
  THEN CHOOSE k \in 1..Len(cv) : cv[k].color = color
  ELSE 0

\* votes.handVotes++ or votes.footVotes++, votes.total++ (entry created first).
AddReportVote(cv, color, isHand) ==
  LET cv1 == IF EntryOf(cv, color) = 0
             THEN Append(cv, [color |-> color, handVotes |-> 0, footVotes |-> 0, total |-> 0])
             ELSE cv
      k == EntryOf(cv1, color)
  IN [cv1 EXCEPT ![k] =
        [color |-> color,
         handVotes |-> IF isHand THEN @.handVotes + 1 ELSE @.handVotes,
         footVotes |-> IF isHand THEN @.footVotes ELSE @.footVotes + 1,
         total |-> @.total + 1]]

\* colorVotes.set(color, (colorVotes.get(color) || 0) + 1)
AddDetectVote(cv, color) ==
  IF EntryOf(cv, color) = 0
  THEN Append(cv, [color |-> color, votes |-> 1])
  ELSE [cv EXCEPT ![EntryOf(cv, color)] = [color |-> color, votes |-> @.votes + 1]]

\* The four limbs of a frame in the order the routines visit them.
Limbs(lw, rw, la, ra) ==
  << [kp |-> lw, isHand |-> TRUE], [kp |-> rw, isHand |-> TRUE],
     [kp |-> la, isHand |-> FALSE], [kp |-> ra, isHand |-> FALSE] >>

RECURSIVE TallyReport(_, _)
TallyReport(cv, limbs) ==
  IF limbs = <<>> THEN cv
  ELSE LET touched == findNearestHoldInRoute(Head(limbs).kp, VoteHolds, TouchThreshold)
       IN TallyReport(IF touched = 0 THEN cv
                      ELSE AddReportVote(cv, VoteHolds[touched].color, Head(limbs).isHand),
                      Tail(limbs))

RECURSIVE TallyDetect(_, _)
TallyDetect(cv, limbs) ==
  IF limbs = <<>> THEN cv
  ELSE LET touchedHold == detectorFindNearestHold(Head(limbs).kp, VoteHolds, DetectTouchDistance)
       IN TallyDetect(IF touchedHold = 0 THEN cv
                      ELSE AddDetectVote(cv, VoteHolds[touchedHold].color),
                      Tail(limbs))

\* The wrist-to-hold test of determineActiveRoute: distance to the centre of
\* the hold's box below hold.width + 30.
NearHoldBox(kp, hold) ==
  LET r == hold.width + WristMargin
  IN DistSq(2 * kp.x, 2 * kp.y, 2 * hold.x + hold.width, 2 * hold.y + hold.height)
       < 4 * r * r

\* The first hold, in list order, that passes the test and whose colour has a
\* route; 0 when there is none.
FirstHoldNear(kp) ==
  LET hits == {k \in 1..Len(VoteHolds) :
                 NearHoldBox(kp, VoteHolds[k]) /\ RouteOfColor(VoteHolds[k].color) # None}
  IN IF hits = {} THEN 0 ELSE CHOOSE k \in hits : \A q \in hits : k <= q

\* The hold a routine takes a limb's keypoint to be in contact with (0: none).
Touched(r, kp) ==
  CASE r = "report" -> findNearestHoldInRoute(kp, VoteHolds, TouchThreshold)
    [] r = "detectHolds" ->
         IF kp.score > DetectMinScore
         THEN detectorFindNearestHold(kp, VoteHolds, DetectTouchDistance) ELSE 0
    [] OTHER -> IF kp.score > WristMinScore THEN FirstHoldNear(kp) ELSE 0

\* History of contacts: what each limb of the frame touched, by kind of limb.
RECURSIVE NoteTouches(_, _, _)
NoteTouches(t, r, limbs) ==
  IF limbs = <<>> THEN t
  ELSE LET h == Touched(r, Head(limbs).kp)
           c == VoteHolds[h].color
       IN NoteTouches(IF h = 0 THEN t
                      ELSE IF Head(limbs).isHand
                           THEN [t EXCEPT ![c].hand = @ + 1]
                           ELSE [t EXCEPT ![c].foot = @ + 1],
                      r, Tail(limbs))

\* The selection loop of detectActiveRouteFromValidFrames over the first k
\* entries: a colour needs hand and foot votes, and a strictly higher total.
BestReportLatestTie(cv, k) ==
  LET eligible == {q \in 1..k : cv[q].handVotes > 0 /\ cv[q].footVotes > 0}
  IN IF eligible = {} THEN [bestColor |-> None, bestScore |-> 0]
     ELSE LET w == CHOOSE q \in eligible :
                     \A r \in eligible :
                       cv[q].total > cv[r].total \/ (cv[q].total = cv[r].total /\ q >= r)
          IN [bestColor |-> cv[w].color, bestScore |-> cv[w].total]

RECURSIVE BestReport(_, _)
BestReport(cv, k) ==
  IF k = 0 THEN [bestColor |-> None, bestScore |-> 0]
  ELSE LET b == BestReport(cv, k - 1)
           votes == cv[k]
       IN IF votes.handVotes > 0 /\ votes.footVotes > 0 /\ votes.total > b.bestScore
          THEN [bestColor |-> votes.color, bestScore |-> votes.total]
          ELSE b

\* The selection loop of detectActiveRoute: the strictly highest vote count.
RECURSIVE BestDetect(_, _)
BestDetect(cv, k) ==
  IF k = 0 THEN [activeColor |-> None, maxVotes |-> 0]
  ELSE LET b == BestDetect(cv, k - 1)
       IN IF cv[k].votes > b.maxVotes
          THEN [activeColor |-> cv[k].color, maxVotes |-> cv[k].votes]
          ELSE b

InitVote ==
  /\ routine \in VoteRoutines
  /\ colorVotes = <<>> /\ touches = NoTouches /\ vFrames = 0
  /\ activeRoute = None /\ vpc = "voting"
  /\ DiffOff
  /\ MergeIdle
  /\ RouteIdle
  /\ RecIdle
  /\ VideoIdle

\* detectActiveRouteFromValidFrames, one pass of the loop over validFrames.
ReportFrame(lw, rw, la, ra) ==
  /\ routine = "report" /\ vpc = "voting"
  /\ vFrames < MaxVoteFrames
  /\ colorVotes' = TallyReport(colorVotes, Limbs(lw, rw, la, ra))
  /\ touches' = NoteTouches(touches, routine, Limbs(lw, rw, la, ra))
  /\ vFrames' = vFrames + 1
  /\ UNCHANGED <<routine, activeRoute, vpc, notVote>>

\* detectActiveRouteFromValidFrames, after the loop: selection and return.
ReportSelect ==
  /\ routine = "report" /\ vpc = "voting"
  /\ LET bestColor == BestReport(colorVotes, Len(colorVotes)).bestColor
     IN activeRoute' = IF bestColor # None THEN RouteOfColor(bestColor) ELSE None
  /\ vpc' = "returned"
  /\ UNCHANGED <<routine, colorVotes, touches, vFrames, notVote>>

\* detectActiveRoute, one pass of the loop over middleFrames with a pose.
DetectFrame(lw, rw, la, ra) ==
  /\ routine = "detectHolds" /\ vpc = "voting"
  /\ vFrames < MaxVoteFrames
  /\ LET limbs == SelectSeq(Limbs(lw, rw, la, ra), LAMBDA l : l.kp.score > DetectMinScore)
     IN colorVotes' = TallyDetect(colorVotes, limbs)
  /\ touches' = NoteTouches(touches, routine, Limbs(lw, rw, la, ra))
  /\ vFrames' = vFrames + 1
  /\ UNCHANGED <<routine, activeRoute, vpc, notVote>>

\* detectActiveRoute, a frame in which no pose was found (continue).
DetectFrameNoPose ==
  /\ routine = "detectHolds" /\ vpc = "voting"
  /\ vFrames < MaxVoteFrames
  /\ vFrames' = vFrames + 1
  /\ UNCHANGED <<routine, colorVotes, touches, activeRoute, vpc, notVote>>

\* detectActiveRoute, after the loop: selection and return.
DetectSelect ==
  /\ routine = "detectHolds" /\ vpc = "voting"
  /\ LET activeColor == BestDetect(colorVotes, Len(colorVotes)).activeColor
     IN activeRoute' = IF activeColor # None THEN RouteOfColor(activeColor) ELSE None
  /\ vpc' = "returned"
  /\ UNCHANGED <<routine, colorVotes, touches, vFrames, notVote>>

\* VideoAnalyzer.determineActiveRoute(pose): the route of the first hold near
\* the first wrist (left, then right) whose score exceeds 0.5.
DetermineActiveRoute(lw, rw, la, ra) ==
  /\ routine = "videoAnalyzer" /\ vpc = "voting"
  /\ LET wrists == SelectSeq(<<lw, rw>>, LAMBDA w : w.score > WristMinScore)
         hits == {k \in 1..Len(wrists) : FirstHoldNear(wrists[k]) # 0}
     IN activeRoute' =
          IF hits = {} THEN None
          ELSE LET w == CHOOSE k \in hits : \A q \in hits : k <= q
               IN RouteOfColor(VoteHolds[FirstHoldNear(wrists[w])].color)
  /\ touches' = NoteTouches(touches, routine, Limbs(lw, rw, la, ra))
  /\ vFrames' = vFrames + 1
  /\ vpc' = "returned"
  /\ UNCHANGED <<routine, colorVotes, notVote>>

NextVote ==
  \/ \E lw \in ValidKeypoints, rw \in ValidKeypoints,
        la \in ValidKeypoints, ra \in ValidKeypoints : ReportFrame(lw, rw, la, ra)
  \/ ReportSelect
  \/ \E lw \in VoteKeypoints, rw \in VoteKeypoints,
        la \in VoteKeypoints, ra \in VoteKeypoints : DetectFrame(lw, rw, la, ra)
  \/ DetectFrameNoPose
  \/ DetectSelect
  \/ \E lw \in VoteKeypoints, rw \in VoteKeypoints,
        la \in VoteKeypoints, ra \in VoteKeypoints : DetermineActiveRoute(lw, rw, la, ra)

SpecVote == InitVote /\ [][NextVote]_vars

(***************************************************************************)
(* ActiveRouteVoter: properties                                            *)
(***************************************************************************)

\* C1 as stated: whichever routine ran, the colour it returns as the active
\* route is not one with hand contacts only (no foot contact at all).
C1_HandOnlyNeverSelected ==
  (vpc = "returned" /\ activeRoute # None) =>
    ~(touches[activeRoute].hand > 0 /\ touches[activeRoute].foot = 0)

\* The routine of the report pipeline alone does keep to it.
ReportNeverSelectsHandOnly ==
  (routine = "report" /\ vpc = "returned" /\ activeRoute # None) =>
    touches[activeRoute].foot > 0

(***************************************************************************)
(* ActionRecognizer: the class of climb_report.ts ("climbReport") and the  *)
(* class of recognizer.ts ("legacy").  Times are in milliseconds: the      *)
(* timestamp of a BetaAction is kept as timestamp - startTime, before the  *)
(* division by 1000.                                                       *)
(***************************************************************************)

\* The number of update calls and of reset calls on one instance.
MaxFrames == 4
MaxResets == 1
Recognizers == {"climbReport", "legacy"}

RecLimbs == <<"leftHand", "rightHand", "leftFoot", "rightFoot">>

LimbSet == {RecLimbs[k] : k \in 1..4}

KeypointName(limb) ==
  CASE limb = "leftHand" -> "left_wrist"
    [] limb = "rightHand" -> "right_wrist"
    [] limb = "leftFoot" -> "left_ankle"
    [] OTHER -> "right_ankle"

\* Mutation of ContactType: every contact is a Grab.
ContactTypeGrab(limb) == "Grab"

\* limb.includes('Hand') ? 'Grab' : 'Step'
ContactType(limb) == IF limb \in {"leftHand", "rightHand"} THEN "Grab" ELSE "Step"

\* The time between two frames and the value of Date.now() at video time 0.
FrameStep == 100
WallClockOrigin == 1000000

\* The holds the recognizers are given: a yellow route of five holds and a
\* green route of eight, named as groupHoldsToRoutes names them; x and y are
\* the averaged centre groupHoldsToRoutes records, green_5 is a large hold.
RecHolds ==
  << [id |-> "yellow_1",   x |-> 100, y |-> 500, width |-> 20, height |-> 20, color |-> "yellow"],
     [id |-> "yellow_2",   x |-> 200, y |-> 400, width |-> 20, height |-> 20, color |-> "yellow"],
     [id |-> "yellow_3",   x |-> 100, y |-> 300, width |-> 20, height |-> 20, color |-> "yellow"],
     [id |-> "yellow_4",   x |-> 200, y |-> 200, width |-> 20, height |-> 20, color |-> "yellow"],
     [id |-> "yellow_TOP", x |-> 100, y |-> 100, width |-> 20, height |-> 20, color |-> "yellow"],
     [id |-> "green_1",    x |-> 400, y |-> 800, width |-> 20, height |-> 20, color |-> "green"],
     [id |-> "green_2",    x |-> 400, y |-> 700, width |-> 20, height |-> 20, color |-> "green"],
     [id |-> "green_3",    x |-> 400, y |-> 600, width |-> 20, height |-> 20, color |-> "green"],
     [id |-> "green_4",    x |-> 300, y |-> 500, width |-> 20, height |-> 20, color |-> "green"],
     [id |-> "green_5",    x |-> 400, y |-> 400, width |-> 60, height |-> 60, color |-> "green"],
     [id |-> "green_6",    x |-> 160, y |-> 300, width |-> 20, height |-> 20, color |-> "green"],
     [id |-> "green_7",    x |-> 400, y |-> 200, width |-> 20, height |-> 20, color |-> "green"],
     [id |-> "green_TOP",  x |-> 300, y |-> 100, width |-> 20, height |-> 20, color |-> "green"] >>

RecRoutes ==
  << [color |-> "yellow", topHold |-> "yellow_TOP",
      holds |-> {RecHolds[k].id : k \in 1..5}],
     [color |-> "green", topHold |-> "green_TOP",
      holds |-> {RecHolds[k].id : k \in 6..13}] >>

HoldOfId(id) == RecHolds[CHOOSE k \in 1..Len(RecHolds) : RecHolds[k].id = id]

Kp(x, y, score) == [x |-> x, y |-> y, score |-> score]

\* A pose with every limb away from the holds and both legs straight.
BaseKeypoints ==
  [nose |-> Kp(150, 250, 9),
   left_wrist |-> Kp(40, 240, 9), right_wrist |-> Kp(260, 240, 9),
   left_hip |-> Kp(130, 400, 9), right_hip |-> Kp(170, 400, 9),
   left_knee |-> Kp(110, 480, 9), right_knee |-> Kp(190, 480, 9),
   left_ankle |-> Kp(40, 560, 9), right_ankle |-> Kp(260, 560, 9)]

FullPose(kps) == [empty |-> FALSE, kps |-> kps]

\* estimatePoses found nobody: pose.length === 0.
EmptyPose == [empty |-> TRUE, kps |-> BaseKeypoints]

\* The poses a frame can show: away from the wall; left hand on yellow_3; the
\* same 4 px to the right; the same with a score of 0.2; left foot on yellow_1
\* with a straight leg; left foot hooked on yellow_2 with the knee bent; right
\* hand crossed over to yellow_3; right foot on green_4; left hand on
\* yellow_TOP; nobody in the frame.
Poses ==
  { FullPose(BaseKeypoints),
    FullPose([BaseKeypoints EXCEPT !.left_wrist = Kp(105, 305, 9)]),
    FullPose([BaseKeypoints EXCEPT !.left_wrist = Kp(109, 305, 9)]),
    FullPose([BaseKeypoints EXCEPT !.left_wrist = Kp(105, 305, 2)]),
    FullPose([BaseKeypoints EXCEPT !.left_ankle = Kp(105, 505, 9)]),
    FullPose([BaseKeypoints EXCEPT !.left_ankle = Kp(195, 405, 9),
                                   !.left_knee = Kp(180, 440, 9)]),
    FullPose([BaseKeypoints EXCEPT !.right_wrist = Kp(105, 305, 9)]),
    FullPose([BaseKeypoints EXCEPT !.right_ankle = Kp(305, 505, 9)]),
    FullPose([BaseKeypoints EXCEPT !.left_wrist = Kp(105, 105, 9)]),
    EmptyPose }

\* pose.find(p => p.name === name) finds a keypoint unless the pose is empty.
Found(pose, name) == ~pose.empty

MOVE_THRESHOLD == 3
HOLD_DISTANCE == 40
MOVE_THRES == 2
HOLD_DIST_THRES == 30
LimbMinScore == 3
HeelHookMargin == 20
CrossoverMargin == 30

\* createInitialState().limbStates / the initial limbStates of the legacy class.
InitialLimbStates(r) ==
  [l \in LimbSet |->
     [state |-> IF r = "climbReport" THEN "idle" ELSE "Unknown",
      holdId |-> None, lastPos |-> [x |-> 0, y |-> 0], timestamp |-> 0]]

\* geometry.angle(p1, p2, p3) < degrees, for degrees = 120: the angle at p2 is
\* below 120 iff its cosine exceeds -1/2; angle() is 0 when a side has length 0.
AngleBelow120(p1, p2, p3) ==
  LET v1x == p1.x - p2.x
      v1y == p1.y - p2.y
      v2x == p3.x - p2.x
      v2y == p3.y - p2.y
      dot == v1x * v2x + v1y * v2y
      m1 == v1x * v1x + v1y * v1y
      m2 == v2x * v2x + v2y * v2y
  IN \/ m1 = 0 \/ m2 = 0
     \/ dot >= 0
     \/ 4 * dot * dot < m1 * m2

\* climbReport findNearestHold: distance to (x + width/2, y + height/2), in
\* doubled coordinates; the first hold at the least distance.
CentreDistSq4(pt, hold) ==
  DistSq(2 * pt.x, 2 * pt.y, 2 * hold.x + hold.width, 2 * hold.y + hold.height)

recognizerFindNearestHold(pt) ==
  CHOOSE k \in 1..Len(RecHolds) :
    \A q \in 1..Len(RecHolds) :
      \/ CentreDistSq4(pt, RecHolds[k]) < CentreDistSq4(pt, RecHolds[q])
      \/ (CentreDistSq4(pt, RecHolds[k]) = CentreDistSq4(pt, RecHolds[q]) /\ k <= q)

\* legacy findNearestHold: distance to (x, y).
CornerDistSq(pt, hold) == DistSq(pt.x, pt.y, hold.x, hold.y)

legacyFindNearestHold(pt, holds) ==
  CHOOSE k \in 1..Len(holds) :
    \A q \in 1..Len(holds) :
      \/ CornerDistSq(pt, holds[k]) < CornerDistSq(pt, holds[q])
      \/ (CornerDistSq(pt, holds[k]) = CornerDistSq(pt, holds[q]) /\ k <= q)

\* holdData.routes.find(r => r.holds.some(h => h.id === holdId)) || null
findRouteByHold(holdId) ==
  LET hits == {k \in 1..Len(RecRoutes) : holdId \in RecRoutes[k].holds}
  IN IF hits = {} THEN None
     ELSE RecRoutes[CHOOSE k \in hits : \A q \in hits : k <= q].color

\* Mutation of lastActionIs: the limb's first action is looked at.
lastActionIsFirst(beta, limb, type) ==
  LET own == SelectSeq(beta, LAMBDA a : a.limb = limb)
  IN Len(own) > 0 /\ own[1].type = type

\* betaSequence.filter(a => a.limb === limb).pop()?.type === type
lastActionIs(beta, limb, type) ==
  LET own == SelectSeq(beta, LAMBDA a : a.limb = limb)
  IN Len(own) > 0 /\ own[Len(own)].type = type

\* The BetaAction recorded for a contact (description left out).
ContactAction(limb, holdId, timestamp, start) ==
  [id |-> <<timestamp, limb>>, timestamp |-> timestamp - start,
   type |-> ContactType(limb), limb |-> limb, holdId |-> holdId]

\* Mutation of wasHolding: the limb is never taken to be on the hold already.
wasHoldingNever(ls, holdId) == FALSE

\* climbReport updateLimb: state.state === 'holding' && state.holdId === id
wasHolding(ls, holdId) == ls.state = "holding" /\ ls.holdId = holdId

\* Mutation of updateLimb: a limb that moves keeps its held hold.
updateLimbKeepsHold(st, limb, kp, timestamp, start) ==
  LET ls == st.limbStates[limb]
      pos == [x |-> kp.x, y |-> kp.y]
      velocitySq == DistSq(kp.x, kp.y, ls.lastPos.x, ls.lastPos.y)
      nearest == RecHolds[recognizerFindNearestHold(kp)]
  IN IF velocitySq > MOVE_THRESHOLD * MOVE_THRESHOLD
     THEN [st EXCEPT !.limbStates[limb] = [@ EXCEPT !.state = "moving", !.lastPos = pos]]
     ELSE IF /\ CentreDistSq4(kp, nearest) < 4 * HOLD_DISTANCE * HOLD_DISTANCE
             /\ ~wasHolding(ls, nearest.id)
          THEN [st EXCEPT
                  !.limbStates[limb] =
                     [@ EXCEPT !.state = "holding", !.holdId = nearest.id, !.lastPos = pos],
                  !.touchedHolds = @ \cup {nearest.id},
                  !.betaSequence = Append(@, ContactAction(limb, nearest.id, timestamp, start)),
                  !.activeRoute = IF @ = None THEN findRouteByHold(nearest.id) ELSE @]
          ELSE [st EXCEPT !.limbStates[limb].lastPos = pos]

\* Mutation of updateLimb: every contact sets the active route anew.
updateLimbRerouting(st, limb, kp, timestamp, start) ==
  LET ls == st.limbStates[limb]
      pos == [x |-> kp.x, y |-> kp.y]
      velocitySq == DistSq(kp.x, kp.y, ls.lastPos.x, ls.lastPos.y)
      nearest == RecHolds[recognizerFindNearestHold(kp)]
  IN IF velocitySq > MOVE_THRESHOLD * MOVE_THRESHOLD
     THEN [st EXCEPT !.limbStates[limb] =
             [@ EXCEPT !.state = "moving", !.holdId = None, !.lastPos = pos]]
     ELSE IF /\ CentreDistSq4(kp, nearest) < 4 * HOLD_DISTANCE * HOLD_DISTANCE
             /\ ~wasHolding(ls, nearest.id)
          THEN [st EXCEPT
                  !.limbStates[limb] =
                     [@ EXCEPT !.state = "holding", !.holdId = nearest.id, !.lastPos = pos],
                  !.touchedHolds = @ \cup {nearest.id},
                  !.betaSequence = Append(@, ContactAction(limb, nearest.id, timestamp, start)),
                  !.activeRoute = findRouteByHold(nearest.id)]
          ELSE [st EXCEPT !.limbStates[limb].lastPos = pos]

\* climbReport updateLimb on the recognizer state st = [limbStates,
\* betaSequence, touchedHolds, activeRoute].
updateLimb(st, limb, kp, timestamp, start) ==
  LET ls == st.limbStates[limb]
      pos == [x |-> kp.x, y |-> kp.y]
      velocitySq == DistSq(kp.x, kp.y, ls.lastPos.x, ls.lastPos.y)
      nearest == RecHolds[recognizerFindNearestHold(kp)]
  IN IF velocitySq > MOVE_THRESHOLD * MOVE_THRESHOLD
     THEN [st EXCEPT !.limbStates[limb] =
             [@ EXCEPT !.state = "moving", !.holdId = None, !.lastPos = pos]]
     ELSE IF /\ CentreDistSq4(kp, nearest) < 4 * HOLD_DISTANCE * HOLD_DISTANCE
             /\ ~wasHolding(ls, nearest.id)
          THEN [st EXCEPT
                  !.limbStates[limb] =
                     [@ EXCEPT !.state = "holding", !.holdId = nearest.id, !.lastPos = pos],
                  !.touchedHolds = @ \cup {nearest.id},
                  !.betaSequence = Append(@, ContactAction(limb, nearest.id, timestamp, start)),
                  !.activeRoute = IF @ = None THEN findRouteByHold(nearest.id) ELSE @]
          ELSE [st EXCEPT !.limbStates[limb].lastPos = pos]

\* climbReport update: the loop over extractLimbs(pose), limbs k..4.
RECURSIVE updateLimbs(_, _, _, _, _)
updateLimbs(st, pose, k, timestamp, start) ==
  IF k > 4 THEN st
  ELSE LET limb == RecLimbs[k]
           kp == pose.kps[KeypointName(limb)]
       IN updateLimbs(IF Found(pose, KeypointName(limb)) /\ kp.score > LimbMinScore
                      THEN updateLimb(st, limb, kp, timestamp, start)
                      ELSE st,
                      pose, k + 1, timestamp, start)

SideFoot(side) == IF side = "left" THEN "leftFoot" ELSE "rightFoot"

HeldOrUnknown(holdId) == IF holdId = None THEN "?" ELSE holdId

\* The test both heel-hook detectors make on the pose.
HeelHookPosture(pose, side) ==
  LET hip == pose.kps[IF side = "left" THEN "left_hip" ELSE "right_hip"]
      knee == pose.kps[IF side = "left" THEN "left_knee" ELSE "right_knee"]
      ankle == pose.kps[IF side = "left" THEN "left_ankle" ELSE "right_ankle"]
  IN AngleBelow120(hip, knee, ankle) /\ ankle.y < knee.y + HeelHookMargin

detectHeelHook(st, pose, side, timestamp, start) ==
  LET limb == SideFoot(side)
      state == st.limbStates[limb]
  IN IF /\ ~pose.empty
        /\ state.state = "holding"
        /\ HeelHookPosture(pose, side)
        /\ ~lastActionIs(st.betaSequence, limb, "HeelHook")
     THEN [st EXCEPT !.betaSequence =
             Append(@, [id |-> <<"hh", timestamp>>, timestamp |-> timestamp - start,
                        type |-> "HeelHook", limb |-> limb,
                        holdId |-> HeldOrUnknown(state.holdId)])]
     ELSE st

detectCrossover(st, pose, timestamp, start) ==
  LET state == st.limbStates["rightHand"]
  IN IF /\ ~pose.empty
        /\ state.state = "holding"
        /\ pose.kps.right_wrist.x < pose.kps.nose.x - CrossoverMargin
        /\ ~lastActionIs(st.betaSequence, "rightHand", "Crossover")
     THEN [st EXCEPT !.betaSequence =
             Append(@, [id |-> <<"co", timestamp>>, timestamp |-> timestamp - start,
                        type |-> "Crossover", limb |-> "rightHand",
                        holdId |-> HeldOrUnknown(state.holdId)])]
     ELSE st

\* climbReport updateProgress: the new value of state.progress.
updateProgress(st) ==
  IF st.activeRoute = None THEN 0
  ELSE LET route == RecRoutes[CHOOSE k \in 1..Len(RecRoutes) :
                                RecRoutes[k].color = st.activeRoute]
           touched == Cardinality(st.touchedHolds \cap route.holds)
           n == Cardinality(route.holds)
       IN IF route.topHold \in st.touchedHolds THEN 100
          ELSE (200 * touched + n) \div (2 * n)

\* legacy processLimb on st = [limbStates, betaSequence].
processLimb(st, pose, prev, limb, timestamp, start) ==
  LET kp == pose.kps[KeypointName(limb)]
      prevKp == prev.kps[KeypointName(limb)]
      state == st.limbStates[limb]
      nearestHold == RecHolds[legacyFindNearestHold(kp, RecHolds)]
  IN IF pose.empty \/ prev.empty \/ kp.score < LimbMinScore THEN st
     ELSE IF DistSq(kp.x, kp.y, prevKp.x, prevKp.y) > MOVE_THRES * MOVE_THRES
     THEN IF state.state # "Moving"
          THEN [st EXCEPT !.limbStates[limb] =
                  [@ EXCEPT !.state = "Moving", !.holdId = None, !.timestamp = timestamp]]
          ELSE [st EXCEPT !.limbStates[limb].timestamp = timestamp]
     ELSE IF CornerDistSq(kp, nearestHold) < HOLD_DIST_THRES * HOLD_DIST_THRES
     THEN IF state.state # "Holding" \/ state.holdId # nearestHold.id
          THEN [st EXCEPT
                  !.limbStates[limb] =
                     [@ EXCEPT !.state = "Holding", !.holdId = nearestHold.id,
                               !.timestamp = timestamp],
                  !.betaSequence = Append(@, ContactAction(limb, nearestHold.id, timestamp, start))]
          ELSE [st EXCEPT !.limbStates[limb].timestamp = timestamp]
     ELSE IF state.state = "Moving"
          THEN [st EXCEPT !.limbStates[limb] =
                  [@ EXCEPT !.state = "Reaching", !.timestamp = timestamp]]
          ELSE [st EXCEPT !.limbStates[limb].timestamp = timestamp]

RECURSIVE processLimbs(_, _, _, _, _, _)
processLimbs(st, pose, prev, k, timestamp, start) ==
  IF k > 4 THEN st
  ELSE processLimbs(processLimb(st, pose, prev, RecLimbs[k], timestamp, start),
                    pose, prev, k + 1, timestamp, start)

checkHeelHook(st, pose, side, timestamp, start) ==
  LET limbName == SideFoot(side)
  IN IF /\ ~pose.empty
        /\ st.limbStates[limbName].state = "Holding"
        /\ HeelHookPosture(pose, side)
        /\ ~lastActionIs(st.betaSequence, limbName, "HeelHook")
     THEN [st EXCEPT !.betaSequence =
             Append(@, [id |-> <<"hh", timestamp, side>>, timestamp |-> timestamp - start,
                        type |-> "HeelHook", limb |-> limbName,
                        holdId |-> HeldOrUnknown(st.limbStates[limbName].holdId)])]
     ELSE st

checkCrossover(st, pose, timestamp, start) ==
  IF /\ ~pose.empty
     /\ st.limbStates["rightHand"].state = "Holding"
     /\ pose.kps.right_wrist.x < pose.kps.nose.x
     /\ ~lastActionIs(st.betaSequence, "rightHand", "Crossover")
  THEN [st EXCEPT !.betaSequence =
          Append(@, [id |-> <<"co", timestamp>>, timestamp |-> timestamp - start,
                     type |-> "Crossover", limb |-> "rightHand",
                     holdId |-> HeldOrUnknown(st.limbStates["rightHand"].holdId)])]
  ELSE st

\* Is the keypoint within the recognizer's holding distance of the hold?
WithinHoldingDistance(r, kp, holdId) ==
  IF r = "climbReport"
  THEN CentreDistSq4(kp, HoldOfId(holdId)) < 4 * HOLD_DISTANCE * HOLD_DISTANCE
  ELSE CornerDistSq(kp, HoldOfId(holdId)) < HOLD_DIST_THRES * HOLD_DIST_THRES

\* The actions an update call has appended to the sequence.
Appended(before, after) ==
  IF Len(after) >= Len(before) THEN SubSeq(after, Len(before) + 1, Len(after)) ELSE <<>>

ContactsOf(acts, limb) ==
  SelectSeq(acts, LAMBDA a : a.limb = limb /\ a.type = ContactType(limb))

\* History: the hold each limb has grabbed and stayed within holding distance
\* of in every frame since, after a call that showed pose and appended acts.
StayAfter(pose, acts) ==
  [l \in LimbSet |->
     IF ContactsOf(acts, l) # <<>> THEN ContactsOf(acts, l)[1].holdId
     ELSE IF /\ stay[l] # None
             /\ ~pose.empty
             /\ WithinHoldingDistance(recognizer, pose.kps[KeypointName(l)], stay[l])
          THEN stay[l]
          ELSE None]

\* History: the contacts recorded again for a hold the limb had stayed near.
DuplicatesIn(pose, acts) ==
  {<<l, stay[l]>> : l \in {q \in LimbSet :
      /\ stay[q] # None
      /\ ~pose.empty
      /\ WithinHoldingDistance(recognizer, pose.kps[KeypointName(q)], stay[q])
      /\ \E k \in 1..Len(acts) :
           acts[k].limb = q /\ acts[k].type = ContactType(q) /\ acts[k].holdId = stay[q]}}

\* new ActionRecognizer(), and for climbReport setHoldData(holdData) after it.
InitRec ==
  /\ recognizer \in Recognizers
  /\ limbStates = InitialLimbStates(recognizer)
  /\ betaSequence = <<>> /\ touchedHolds = {} /\ recActiveRoute = None /\ progress = 0
  /\ startTime = IF recognizer = "climbReport" THEN 0 ELSE WallClockOrigin
  /\ prevPose = <<>> /\ clock = 0 /\ frames = 0 /\ resets = 0 /\ lastOp = "new"
  /\ stay = [l \in LimbSet |-> None] /\ duplicates = {} /\ currentActions = <<>>
  /\ firstFrame = -1
  /\ DiffOff
  /\ MergeIdle
  /\ RouteIdle
  /\ VoteIdle
  /\ VideoIdle

\* climbReport update(pose, timestamp) with timestamp = clock.
UpdateClimbReport(pose) ==
  /\ recognizer = "climbReport"
  /\ frames < MaxFrames
  /\ frames' = frames + 1
  /\ lastOp' = "update"
  /\ LET start == IF startTime = 0 THEN clock ELSE startTime
         st0 == [limbStates |-> limbStates, betaSequence |-> betaSequence,
                 touchedHolds |-> touchedHolds, activeRoute |-> recActiveRoute]
         st1 == updateLimbs(st0, pose, 1, clock, start)
         st2 == detectHeelHook(st1, pose, "left", clock, start)
         st3 == detectHeelHook(st2, pose, "right", clock, start)
         st4 == detectCrossover(st3, pose, clock, start)
     IN IF pose.empty
        THEN /\ UNCHANGED <<limbStates, betaSequence, touchedHolds, recActiveRoute,
                            progress, startTime, duplicates>>
             /\ stay' = StayAfter(pose, <<>>)
        ELSE /\ startTime' = start
             /\ limbStates' = st4.limbStates
             /\ betaSequence' = st4.betaSequence
             /\ touchedHolds' = st4.touchedHolds
             /\ recActiveRoute' = st4.activeRoute
             /\ progress' = updateProgress(st4)
             /\ stay' = StayAfter(pose, Appended(betaSequence, st4.betaSequence))
             /\ duplicates' = duplicates \cup
                                DuplicatesIn(pose, Appended(betaSequence, st4.betaSequence))
  /\ firstFrame' = IF ~pose.empty /\ firstFrame = -1 THEN clock ELSE firstFrame
  /\ clock' = clock + FrameStep
  /\ UNCHANGED <<recognizer, prevPose, resets, currentActions, notRec>>

\* legacy update(pose, holds, timestamp) with timestamp = clock.
UpdateLegacy(pose) ==
  /\ recognizer = "legacy"
  /\ frames < MaxFrames
  /\ frames' = frames + 1
  /\ lastOp' = "update"
  /\ prevPose' = <<pose>>
  /\ LET st0 == [limbStates |-> limbStates, betaSequence |-> betaSequence]
         st1 == processLimbs(st0, pose, prevPose[1], 1, clock, startTime)
         st2 == checkHeelHook(st1, pose, "left", clock, startTime)
         st3 == checkHeelHook(st2, pose, "right", clock, startTime)
         st4 == checkCrossover(st3, pose, clock, startTime)
     IN IF prevPose = <<>>
        THEN /\ UNCHANGED <<limbStates, betaSequence, duplicates>>
             /\ stay' = StayAfter(pose, <<>>)
        ELSE /\ limbStates' = st4.limbStates
             /\ betaSequence' = st4.betaSequence
             /\ stay' = StayAfter(pose, Appended(betaSequence, st4.betaSequence))
             /\ duplicates' = duplicates \cup
                                DuplicatesIn(pose, Appended(betaSequence, st4.betaSequence))
  /\ firstFrame' = IF firstFrame = -1 THEN clock ELSE firstFrame
  /\ clock' = clock + FrameStep
  /\ UNCHANGED <<recognizer, touchedHolds, recActiveRoute, progress, startTime,
                 resets, currentActions, notRec>>

\* climbReport reset(): state = createInitialState(), startTime = 0.
ResetClimbReport ==
  /\ recognizer = "climbReport"
  /\ resets < MaxResets
  /\ limbStates' = InitialLimbStates(recognizer)
  /\ betaSequence' = <<>> /\ touchedHolds' = {} /\ recActiveRoute' = None /\ progress' = 0
  /\ startTime' = 0
  /\ firstFrame' = -1
  /\ stay' = [l \in LimbSet |-> None]
  /\ resets' = resets + 1
  /\ lastOp' = "reset"
  /\ UNCHANGED <<recognizer, prevPose, clock, frames, duplicates, currentActions, notRec>>

\* legacy reset(): betaSequence = [], startTime = Date.now().
ResetLegacy ==
  /\ recognizer = "legacy"
  /\ resets < MaxResets
  /\ betaSequence' = <<>>
  /\ startTime' = WallClockOrigin + clock
  /\ firstFrame' = -1
  /\ stay' = [l \in LimbSet |-> None]
  /\ resets' = resets + 1
  /\ lastOp' = "reset"
  /\ UNCHANGED <<recognizer, limbStates, touchedHolds, recActiveRoute, progress,
                 prevPose, clock, frames, duplicates, currentActions, notRec>>

NextRec ==
  \/ \E pose \in Poses : UpdateClimbReport(pose)
  \/ \E pose \in Poses : UpdateLegacy(pose)
  \/ ResetClimbReport
  \/ ResetLegacy

SpecRec == InitRec /\ [][NextRec]_vars

(***************************************************************************)
(* ActionRecognizer: properties                                            *)
(***************************************************************************)

Holding(l) == limbStates[l].state \in {"holding", "Holding"}

\* C2 as stated: after a limb's Grab/Step for hold X, no update records another
\* Grab/Step for that limb and X while the limb's keypoint has been within the
\* holding distance of X in every frame since.
C2_NoDuplicateWhileNear == duplicates = {}

\* C2 amended: an update call records no Grab/Step for a limb and the hold the
\* limb is holding when the call starts; a second Grab/Step for the same hold
\* needs a frame in between that took the limb out of holding (a displacement
\* above the move threshold), however near the hold the keypoint stayed.
C2_NoDuplicateWhileHolding ==
  [][\A l \in LimbSet :
       Holding(l) =>
         \A k \in 1..Len(Appended(betaSequence, betaSequence')) :
           LET a == Appended(betaSequence, betaSequence')[k]
           IN ~(a.limb = l /\ a.type = ContactType(l) /\ a.holdId = limbStates[l].holdId)]_vars

\* The left hand grabbed yellow_3 two or more frames ago and has held it since
\* without another Grab.
C2_Witness ==
  /\ Holding("leftHand")
  /\ limbStates["leftHand"].holdId = "yellow_3"
  /\ resets = 0
  /\ Len(ContactsOf(betaSequence, "leftHand")) = 1
  /\ ContactsOf(betaSequence, "leftHand")[1].id[1] + 3 * FrameStep <= clock

\* C10 as stated: right after reset() the recognizer is as a new one: every
\* limb in its initial state with no held hold, no recorded action, no touched
\* hold, progress 0 and no active route.
C10_ResetLikeFresh ==
  lastOp = "reset" =>
    /\ \A l \in LimbSet :
         /\ limbStates[l].state = InitialLimbStates(recognizer)[l].state
         /\ limbStates[l].holdId = None
    /\ betaSequence = <<>>
    /\ touchedHolds = {}
    /\ progress = 0
    /\ recActiveRoute = None

\* The class of climb_report.ts does reset to its initial state.
ClimbReportResetLikeFresh == recognizer = "climbReport" => C10_ResetLikeFresh

(***************************************************************************)
(* Progress tracking: RouteAnalyzer (logic/route_analyzer) beside the      *)
(* recognizer of climb_report.ts                                           *)
(***************************************************************************)

Trackers == {"climbReport", "routeAnalyzer"}

TOUCH_THRESHOLD == 40

\* RouteAnalyzer.findTouchedHold: the index of the first hold at the least
\* distance among those closer than TOUCH_THRESHOLD, 0 for null.
findTouchedHold(point) == NearestWithin(point, RecHolds, TOUCH_THRESHOLD)

\* RouteAnalyzer.update, the body of the loop for one limb, on
\* st = [currentActions, touchedHolds, activeRoute].
TouchLimb(st, limb, point) ==
  LET touchedHold == findTouchedHold(point)
      id == RecHolds[touchedHold].id
  IN IF touchedHold = 0
     THEN [st EXCEPT !.currentActions[limb] = None]
     ELSE [st EXCEPT !.currentActions[limb] = id,
                     !.touchedHolds = @ \cup {id},
                     !.activeRoute = IF @ = None THEN findRouteByHold(id) ELSE @]

RECURSIVE TouchLimbs(_, _, _)
TouchLimbs(st, pose, k) ==
  IF k > 4 THEN st
  ELSE LET limb == RecLimbs[k]
           point == pose.kps[KeypointName(limb)]
       IN TouchLimbs(IF Found(pose, KeypointName(limb)) /\ point.score > LimbMinScore
                     THEN TouchLimb(st, limb, point)
                     ELSE st,
                     pose, k + 1)

\* Mutation of analyzerUpdateProgress: the share is cut off, not rounded.
analyzerUpdateProgressFloor(st) ==
  IF st.activeRoute = None THEN 0
  ELSE LET route == RecRoutes[CHOOSE k \in 1..Len(RecRoutes) :
                                RecRoutes[k].color = st.activeRoute]
       IN IF route.topHold \in st.touchedHolds THEN 100
          ELSE (100 * Cardinality(st.touchedHolds \cap route.holds))
                 \div Cardinality(route.holds)

\* RouteAnalyzer.updateProgress: the new value of state.progress (every route
\* of holdData has a topHold).
analyzerUpdateProgress(st) ==
  IF st.activeRoute = None THEN 0
  ELSE LET route == RecRoutes[CHOOSE k \in 1..Len(RecRoutes) :
                                RecRoutes[k].color = st.activeRoute]
           touched == Cardinality(st.touchedHolds \cap route.holds)
           n == Cardinality(route.holds)
       IN IF route.topHold \in st.touchedHolds THEN 100
          ELSE (200 * touched + n) \div (2 * n)

\* new ActionRecognizer() and setHoldData, or new RouteAnalyzer() and setHoldData.
InitTrack ==
  /\ recognizer \in Trackers
  /\ limbStates = IF recognizer = "climbReport" THEN InitialLimbStates(recognizer) ELSE <<>>
  /\ betaSequence = <<>> /\ touchedHolds = {} /\ recActiveRoute = None /\ progress = 0
  /\ startTime = 0
  /\ prevPose = <<>> /\ clock = 0 /\ frames = 0 /\ resets = 0 /\ lastOp = "new"
  /\ stay = [l \in LimbSet |-> None] /\ duplicates = {}
  /\ currentActions = IF recognizer = "routeAnalyzer" THEN [l \in LimbSet |-> None] ELSE <<>>
  /\ firstFrame = -1
  /\ DiffOff
  /\ MergeIdle
  /\ RouteIdle
  /\ VoteIdle
  /\ VideoIdle

\* RouteAnalyzer.update(pose).
UpdateRouteAnalyzer(pose) ==
  /\ recognizer = "routeAnalyzer"
  /\ frames < MaxFrames
  /\ LET st0 == [currentActions |-> currentActions, touchedHolds |-> touchedHolds,
                 activeRoute |-> recActiveRoute]
         st1 == TouchLimbs(st0, pose, 1)
     IN /\ currentActions' = st1.currentActions
        /\ touchedHolds' = st1.touchedHolds
        /\ recActiveRoute' = st1.activeRoute
        /\ progress' = analyzerUpdateProgress(st1)
  /\ clock' = clock + FrameStep
  /\ frames' = frames + 1
  /\ lastOp' = "update"
  /\ UNCHANGED <<recognizer, limbStates, betaSequence, startTime, prevPose, resets,
                 stay, duplicates, firstFrame, notRec>>

\* RouteAnalyzer.reset().
ResetRouteAnalyzer ==
  /\ recognizer = "routeAnalyzer"
  /\ resets < MaxResets
  /\ currentActions' = [l \in LimbSet |-> None]
  /\ touchedHolds' = {} /\ recActiveRoute' = None /\ progress' = 0
  /\ resets' = resets + 1
  /\ lastOp' = "reset"
  /\ UNCHANGED <<recognizer, limbStates, betaSequence, startTime, prevPose, clock,
                 frames, stay, duplicates, firstFrame, notRec>>

NextTrack ==
  \/ \E pose \in Poses : UpdateClimbReport(pose)
  \/ ResetClimbReport
  \/ \E pose \in Poses : UpdateRouteAnalyzer(pose)
  \/ ResetRouteAnalyzer

SpecTrack == InitTrack /\ [][NextTrack]_vars

\* C11: progress is an integer in 0..100; it is 0 while no active route is set;
\* with an active route it is 100 if the route's top hold has been touched and
\* otherwise the share of the route's holds touched, in percent, rounded to the
\* nearest integer (halves upwards).
C11_Progress ==
  /\ progress \in 0..100
  /\ recActiveRoute = None => progress = 0
  /\ recActiveRoute # None =>
       LET route == RecRoutes[CHOOSE k \in 1..Len(RecRoutes) :
                                RecRoutes[k].color = recActiveRoute]
           t == Cardinality(touchedHolds \cap route.holds)
           n == Cardinality(route.holds)
       IN IF route.topHold \in touchedHolds THEN progress = 100
          ELSE /\ 2 * n * progress <= 200 * t + n
               /\ 200 * t + n < 2 * n * (progress + 1)

\* One of the eight green holds touched: 12.5 per cent, shown as 13.
C11_Witness ==
  /\ recActiveRoute = "green"
  /\ touchedHolds = {"green_4"}
  /\ progress = 13
  /\ lastOp = "update"

\* The top hold touched with one other hold of the five: 100, not 40.
C11_WitnessTop ==
  /\ recActiveRoute = "yellow"
  /\ touchedHolds = {"yellow_3", "yellow_TOP"}
  /\ progress = 100

(***************************************************************************)
(* detectTopReachWithCapture (climb_report.ts)                             *)
(*                                                                         *)
(* Times are kept in ticks of 0.05 s, so the sample interval (0.5 s), the  *)
(* lead (2 s), the tail (0.3 s) and duration * 0.5 are exact integers.     *)
(***************************************************************************)

coreVars == <<diffVars, mergeVars, routeVars, voteVars, recVars>>

CoreIdle == DiffOff /\ MergeIdle /\ RouteIdle /\ VoteIdle /\ RecIdle

notTop == <<coreVars, poseVars, reportVars, detectVars, extraVars>>

\* The longest video scanned: durations are 1.3 s plus up to MaxTopSteps
\* sample intervals.
MaxTopSteps == 2
sampleInterval == 10
touchThreshold == 70
TopLead == 40
TopTail == 6
TopMinScore == 3
BestClimbFloor == 40
BestClimbCeiling == 85

\* The active route of the scan, its top hold and the y of its start hold.
TopRoute == RecRoutes[1]
topHold == HoldOfId(TopRoute.topHold)
TopStartY == HoldOfId("yellow_1").y

\* A wrist keypoint of the returned pose; found = FALSE when poses.find
\* returns undefined.
Wrist(x, y, score) == [found |-> TRUE, x |-> x, y |-> y, score |-> score]
NoWrist == [found |-> FALSE, x |-> 0, y |-> 0, score |-> 0]
TopFrame(lw, rw) == [empty |-> FALSE, left_wrist |-> lw, right_wrist |-> rw]

\* What estimatePoses can return on a sampled frame: nobody; both hands on the
\* top hold; the same with both scores at 0.3; the same with the right score
\* at 0.2; the left hand on the top hold and the right hand away; the left
\* hand exactly 70 px from the top hold; both hands halfway up the route; the
\* left wrist missing; both hands below the start hold; both hands four fifths
\* of the way up.
TopFrames ==
  { [empty |-> TRUE, left_wrist |-> NoWrist, right_wrist |-> NoWrist],
    TopFrame(Wrist(130, 140, 9), Wrist(80, 120, 9)),
    TopFrame(Wrist(130, 140, 3), Wrist(80, 120, 3)),
    TopFrame(Wrist(130, 140, 9), Wrist(80, 120, 2)),
    TopFrame(Wrist(130, 140, 9), Wrist(260, 240, 9)),
    TopFrame(Wrist(170, 100, 9), Wrist(80, 120, 9)),
    TopFrame(Wrist(110, 300, 9), Wrist(180, 260, 9)),
    TopFrame(NoWrist, Wrist(80, 120, 9)),
    TopFrame(Wrist(100, 560, 9), Wrist(120, 540, 9)),
    TopFrame(Wrist(110, 180, 9), Wrist(180, 200, 9)) }

\* The valid-frame times handed over (at least three, inside the video).
TopMiddleTimes == { <<20, 22, 24>>, <<42, 44, 46>> }
TopDurations == { 26 + sampleInterval * k : k \in 0..MaxTopSteps }

RECURSIVE MinOfSeq(_)
MinOfSeq(s) == IF Len(s) = 1 THEN s[1] ELSE Min2(s[1], MinOfSeq(Tail(s)))

MaxOfSeq(s) == CHOOSE v \in {s[k] : k \in 1..Len(s)} : \A k \in 1..Len(s) : s[k] <= v

\* startTime, endTime, samples and the time of sample i.
scanStart(times) == MinOfSeq(times) - TopLead
scanEnd(dur) == dur - TopTail
samples(times, dur) == (scanEnd(dur) - scanStart(times)) \div sampleInterval
sampleTime(times, i) == scanStart(times) + i * sampleInterval

\* The initial bestClimbTime: middleFrameTimes[1] || duration * 0.5.
initialBestClimbTime(times, dur) ==
  IF Len(times) >= 2 /\ times[2] # 0 THEN times[2] ELSE dur \div 2

heightProgressLowerHand(lw, rw) ==
  LET handY == IF lw.y >= rw.y THEN lw.y ELSE rw.y
      raw == (100 * (TopStartY - handY)) \div (TopStartY - topHold.y)
  IN IF raw < 0 THEN 0 ELSE IF raw > 100 THEN 100 ELSE raw

\* The progress of a frame from the height of the higher hand, clamped to
\* 0..100 (the wrist heights of TopFrames make the quotient exact).
heightProgress(lw, rw) ==
  LET handY == Min2(lw.y, rw.y)
      raw == (100 * (TopStartY - handY)) \div (TopStartY - topHold.y)
  IN IF raw < 0 THEN 0 ELSE IF raw > 100 THEN 100 ELSE raw

touchesTopEither(lw, rw) ==
  \/ DistSq(lw.x, lw.y, topHold.x, topHold.y) < touchThreshold * touchThreshold
  \/ DistSq(rw.x, rw.y, topHold.x, topHold.y) < touchThreshold * touchThreshold

\* leftDist < touchThreshold && rightDist < touchThreshold.
touchesTop(lw, rw) ==
  /\ DistSq(lw.x, lw.y, topHold.x, topHold.y) < touchThreshold * touchThreshold
  /\ DistSq(rw.x, rw.y, topHold.x, topHold.y) < touchThreshold * touchThreshold

\* The frames the loop body skips after estimatePoses (the three continues).
skipsFrame(frame) ==
  \/ frame.empty
  \/ ~frame.left_wrist.found \/ ~frame.right_wrist.found
  \/ frame.left_wrist.score < TopMinScore \/ frame.right_wrist.score < TopMinScore

\* The call detectTopReachWithCapture(video, detector, holdData, activeRoute,
\* middleFrameTimes), up to the loop.
InitTop ==
  /\ middleFrameTimes \in TopMiddleTimes
  /\ videoDuration \in {d \in TopDurations : MaxOfSeq(middleFrameTimes) <= d}
  /\ sampleIndex = 0 /\ sampled = <<>> /\ success = FALSE /\ reachTime = <<>>
  /\ maxProgress = 0
  /\ bestClimbTime = initialBestClimbTime(middleFrameTimes, videoDuration)
  /\ bestClimbProgress = 0
  /\ tpc = "scanning"
  /\ CoreIdle
  /\ PoseIdle
  /\ ReportIdle
  /\ DetectIdle
  /\ ExtraIdle

\* An iteration whose time is negative: continue.
TopSkipNegative ==
  /\ tpc = "scanning"
  /\ sampleIndex < samples(middleFrameTimes, videoDuration)
  /\ sampleTime(middleFrameTimes, sampleIndex) < 0
  /\ sampleIndex' = sampleIndex + 1
  /\ UNCHANGED <<middleFrameTimes, videoDuration, sampled, success, reachTime,
                 maxProgress, bestClimbTime, bestClimbProgress, tpc, notTop>>

TopSampleNoBreak(frame) ==
  /\ tpc = "scanning"
  /\ sampleIndex < samples(middleFrameTimes, videoDuration)
  /\ LET time == sampleTime(middleFrameTimes, sampleIndex)
         lw == frame.left_wrist
         rw == frame.right_wrist
         p == heightProgress(lw, rw)
     IN /\ time >= 0
        /\ sampled' = Append(sampled, [time |-> time, frame |-> frame])
        /\ sampleIndex' = sampleIndex + 1
        /\ UNCHANGED tpc
        /\ IF skipsFrame(frame)
           THEN UNCHANGED <<success, reachTime, maxProgress, bestClimbTime,
                            bestClimbProgress>>
           ELSE /\ bestClimbProgress' =
                     IF p > bestClimbProgress /\ p >= BestClimbFloor /\ p <= BestClimbCeiling
                     THEN p ELSE bestClimbProgress
                /\ bestClimbTime' =
                     IF p > bestClimbProgress /\ p >= BestClimbFloor /\ p <= BestClimbCeiling
                     THEN time ELSE bestClimbTime
                /\ IF touchesTop(lw, rw)
                   THEN /\ success' = TRUE
                        /\ reachTime' = IF success THEN reachTime ELSE <<time>>
                        /\ maxProgress' = 100
                   ELSE /\ maxProgress' = IF p > maxProgress THEN p ELSE maxProgress
                        /\ UNCHANGED <<success, reachTime>>
  /\ UNCHANGED <<middleFrameTimes, videoDuration, notTop>>

\* An iteration that seeks to its time and estimates the pose.
TopSample(frame) ==
  /\ tpc = "scanning"
  /\ sampleIndex < samples(middleFrameTimes, videoDuration)
  /\ LET time == sampleTime(middleFrameTimes, sampleIndex)
         lw == frame.left_wrist
         rw == frame.right_wrist
         p == heightProgress(lw, rw)
     IN /\ time >= 0
        /\ sampled' = Append(sampled, [time |-> time, frame |-> frame])
        /\ IF skipsFrame(frame)
           THEN /\ sampleIndex' = sampleIndex + 1
                /\ UNCHANGED <<success, reachTime, maxProgress, bestClimbTime,
                               bestClimbProgress, tpc>>
           ELSE /\ bestClimbProgress' =
                     IF p > bestClimbProgress /\ p >= BestClimbFloor /\ p <= BestClimbCeiling
                     THEN p ELSE bestClimbProgress
                /\ bestClimbTime' =
                     IF p > bestClimbProgress /\ p >= BestClimbFloor /\ p <= BestClimbCeiling
                     THEN time ELSE bestClimbTime
                /\ IF touchesTop(lw, rw)
                   THEN /\ success' = TRUE
                        /\ reachTime' = <<time>>
                        /\ maxProgress' = 100
                        /\ tpc' = "returned"
                        /\ UNCHANGED sampleIndex
                   ELSE /\ maxProgress' = IF p > maxProgress THEN p ELSE maxProgress
                        /\ sampleIndex' = sampleIndex + 1
                        /\ UNCHANGED <<success, reachTime, tpc>>
  /\ UNCHANGED <<middleFrameTimes, videoDuration, notTop>>

\* The loop ends without a break: return { success, reachTime, ... }.
TopReturn ==
  /\ tpc = "scanning"
  /\ sampleIndex >= samples(middleFrameTimes, videoDuration)
  /\ tpc' = "returned"
  /\ UNCHANGED <<middleFrameTimes, videoDuration, sampleIndex, sampled, success,
                 reachTime, maxProgress, bestClimbTime, bestClimbProgress, notTop>>

NextTop ==
  \/ TopSkipNegative
  \/ \E frame \in TopFrames : TopSample(frame)
  \/ TopReturn

SpecTop == InitTop /\ [][NextTop]_vars

\* A sampled frame in which both wrists are detected with a score of at least
\* 0.3 and both lie less than 70 px from the top hold.
BothHandsOnTop(frame) ==
  /\ ~frame.empty
  /\ frame.left_wrist.found /\ frame.right_wrist.found
  /\ frame.left_wrist.score >= 3 /\ frame.right_wrist.score >= 3
  /\ DistSq(frame.left_wrist.x, frame.left_wrist.y, topHold.x, topHold.y) < 70 * 70
  /\ DistSq(frame.right_wrist.x, frame.right_wrist.y, topHold.x, topHold.y) < 70 * 70

TopTimes == {sampled[k].time : k \in {q \in 1..Len(sampled) : BothHandsOnTop(sampled[q].frame)}}

\* C12: the scan returns success = true exactly when some sampled frame has
\* both wrists at or above the confidence floor and within the touch distance
\* of the top hold; reachTime is then the earliest such sampled time, and it is
\* undefined when success is false.
C12_TopReach ==
  tpc = "returned" =>
    /\ success <=> TopTimes # {}
    /\ success => \E t \in TopTimes : reachTime = <<t>> /\ \A u \in TopTimes : t <= u
    /\ ~success => reachTime = <<>>

\* A scan that saw a frame with only one hand on the top hold, went on, and
\* later found both hands there with scores of exactly 0.3.
C12_Witness ==
  /\ tpc = "returned" /\ success
  /\ Len(sampled) >= 2
  /\ touchesTopEither(sampled[1].frame.left_wrist, sampled[1].frame.right_wrist)
  /\ ~BothHandsOnTop(sampled[1].frame)
  /\ sampled[Len(sampled)].frame.left_wrist.score = 3
  /\ reachTime = <<sampled[Len(sampled)].time>>

\* The iterations of the loop that are still to run.
SamplesLeft == samples(middleFrameTimes, videoDuration) - sampleIndex - 1

\* C29: the scan short-circuits: a sampled frame that satisfies the success
\* condition is the last frame the scan seeks to and estimates a pose for, the
\* scan has returned with it, and maxProgress is reported as 100.
C29_ShortCircuit ==
  \A k \in 1..Len(sampled) :
    BothHandsOnTop(sampled[k].frame) =>
      /\ k = Len(sampled)
      /\ tpc = "returned" /\ success
      /\ ~ENABLED (\E frame \in TopFrames : TopSample(frame))
      /\ maxProgress = 100

\* A scan that stopped on its second sampled frame, hands on the top hold but
\* at 95 % of the height, with iterations of the loop left over.
C29_Witness ==
  /\ tpc = "returned" /\ success
  /\ Len(sampled) = 2
  /\ ~BothHandsOnTop(sampled[1].frame)
  /\ BothHandsOnTop(sampled[2].frame)
  /\ heightProgress(sampled[2].frame.left_wrist, sampled[2].frame.right_wrist) = 95
  /\ SamplesLeft >= 1
  /\ maxProgress = 100

\* The samples the loop body processes to the end: a pose with both wrists
\* found at a score of at least 0.3.
ProcessedSamples ==
  {k \in 1..Len(sampled) :
     /\ ~sampled[k].frame.empty
     /\ sampled[k].frame.left_wrist.found /\ sampled[k].frame.right_wrist.found
     /\ sampled[k].frame.left_wrist.score >= 3
     /\ sampled[k].frame.right_wrist.score >= 3}

\* The linear interpolation of the higher wrist's y between the start hold's
\* y (0 %) and the top hold's y (100 %), clamped to 0..100.
InterpolatedProgress(frame) ==
  LET higherY == IF frame.left_wrist.y <= frame.right_wrist.y
                 THEN frame.left_wrist.y ELSE frame.right_wrist.y
  IN CHOOSE p \in 0..100 :
       IF higherY >= TopStartY THEN p = 0
       ELSE IF higherY <= topHold.y THEN p = 100
       ELSE p * (TopStartY - topHold.y) = 100 * (TopStartY - higherY)

ProgressAt(k) == InterpolatedProgress(sampled[k].frame)

HighestProgress ==
  IF ProcessedSamples = {} THEN 0
  ELSE CHOOSE p \in {ProgressAt(k) : k \in ProcessedSamples} :
         \A k \in ProcessedSamples : ProgressAt(k) <= p

BandSamples == {k \in ProcessedSamples : ProgressAt(k) >= 40 /\ ProgressAt(k) <= 85}

\* The earliest of the band's samples with the highest progress.
BestBandSample ==
  CHOOSE k \in BandSamples :
    \A j \in BandSamples :
      \/ ProgressAt(j) < ProgressAt(k)
      \/ ProgressAt(j) = ProgressAt(k) /\ k <= j

BestClimbTimeAsClaimed ==
  IF BandSamples = {}
  THEN initialBestClimbTime(middleFrameTimes, videoDuration)
  ELSE sampled[BestBandSample].time

C30_WitnessReached ==
  /\ tpc = "returned" /\ success
  /\ HighestProgress = 95
  /\ BandSamples = {}
  /\ maxProgress = 100

(***************************************************************************)
(* The shared PoseDetector: the legacy Beta page (part_006), the Beta page *)
(* (pages/BetaAnalysis) and generateDailyReport, each analysing the videos *)
(* A and B with one detector.                                              *)
(***************************************************************************)

notPose == <<coreVars, topVars, reportVars, detectVars, extraVars>>

\* The most estimatePoses calls made on one video.
MaxPoseFrames == 3
Pages == {"legacyPage", "betaPage", "dailyReport"}

\* The video the caller turns to after v.
NextVideo(v) ==
  LET k == CHOOSE q \in 1..Len(PoseVideos) : PoseVideos[q] = v
  IN IF k < Len(PoseVideos) THEN PoseVideos[k + 1] ELSE "done"

\* Where startAnalysis stands once processFrame() has been called for v: the
\* legacy analyzeVideo does not wait for the frame loop and returns, the Beta
\* page returns a Promise that the frame loop resolves at the end of the video.
AfterFirstFrame(p, v) ==
  IF p = "legacyPage" THEN NextVideo(v) ELSE v

\* The detector is initialised and both videos are loaded; the user presses
\* the start button, or generateDailyReport is called.
InitPose ==
  /\ page \in Pages
  /\ driverAt = PoseVideos[1]
  /\ analysis = [v \in PoseVideoSet |-> "idle"]
  /\ outstanding = 0
  /\ frameCount = [v \in PoseVideoSet |-> 0]
  /\ CoreIdle
  /\ TopIdle
  /\ ReportIdle
  /\ DetectIdle
  /\ ExtraIdle

\* startAnalysis calls analyzeVideo(v), which runs up to await video.play().
StartAnalyzeVideo(v) ==
  /\ page \in {"legacyPage", "betaPage"}
  /\ driverAt = v
  /\ analysis[v] = "idle"
  /\ analysis' = [analysis EXCEPT ![v] = "play"]
  /\ UNCHANGED <<page, driverAt, outstanding, frameCount, notPose>>

\* video.play() resolves: analyzeVideo calls processFrame(), which requests
\* the first estimate.
PlayResolved(v) ==
  /\ analysis[v] = "play"
  /\ analysis' = [analysis EXCEPT ![v] = "estimating"]
  /\ outstanding' = outstanding + 1
  /\ driverAt' = AfterFirstFrame(page, v)
  /\ UNCHANGED <<page, frameCount, notPose>>

\* An estimatePoses call on v resolves: a frame loop updates the recognizer,
\* draws and requests the next animation frame; analyzeClimbVideo goes on.
EstimateResolved(v) ==
  /\ analysis[v] = "estimating"
  /\ outstanding' = outstanding - 1
  /\ frameCount' = [frameCount EXCEPT ![v] = @ + 1]
  /\ analysis' = [analysis EXCEPT ![v] =
                    IF page = "dailyReport" THEN "analyzing" ELSE "waitFrame"]
  /\ UNCHANGED <<page, driverAt, notPose>>

\* The animation frame calls processFrame while the video plays.
ProcessFrame(v) ==
  /\ analysis[v] = "waitFrame"
  /\ frameCount[v] < MaxPoseFrames
  /\ analysis' = [analysis EXCEPT ![v] = "estimating"]
  /\ outstanding' = outstanding + 1
  /\ UNCHANGED <<page, driverAt, frameCount, notPose>>

\* The animation frame calls processFrame after the video has ended: the
\* sequence is stored; the Beta page resolves analyzeVideo's promise.
FinishVideo(v) ==
  /\ analysis[v] = "waitFrame"
  /\ analysis' = [analysis EXCEPT ![v] = "finished"]
  /\ driverAt' = IF page = "betaPage" THEN NextVideo(v) ELSE driverAt
  /\ UNCHANGED <<page, outstanding, frameCount, notPose>>

\* analyzeClimbVideo(v), called by generateDailyReport, awaits one more
\* estimatePoses call.
ReportEstimate(v) ==
  /\ page = "dailyReport"
  /\ driverAt = v
  /\ analysis[v] \in {"idle", "analyzing"}
  /\ frameCount[v] < MaxPoseFrames
  /\ analysis' = [analysis EXCEPT ![v] = "estimating"]
  /\ outstanding' = outstanding + 1
  /\ UNCHANGED <<page, driverAt, frameCount, notPose>>

\* analyzeClimbVideo(v) returns or throws: the attempt is pushed and the loop
\* of generateDailyReport turns to the next video.
ReportAttemptDone(v) ==
  /\ page = "dailyReport"
  /\ driverAt = v
  /\ analysis[v] \in {"idle", "analyzing"}
  /\ analysis' = [analysis EXCEPT ![v] = "finished"]
  /\ driverAt' = NextVideo(v)
  /\ UNCHANGED <<page, outstanding, frameCount, notPose>>

NextPose ==
  \/ \E v \in PoseVideoSet : StartAnalyzeVideo(v)
  \/ \E v \in PoseVideoSet : PlayResolved(v)
  \/ \E v \in PoseVideoSet : EstimateResolved(v)
  \/ \E v \in PoseVideoSet : ProcessFrame(v)
  \/ \E v \in PoseVideoSet : FinishVideo(v)
  \/ \E v \in PoseVideoSet : ReportEstimate(v)
  \/ \E v \in PoseVideoSet : ReportAttemptDone(v)

SpecPose == InitPose /\ [][NextPose]_vars

\* C13: the shared pose detector never has more than one unresolved
\* estimatePoses call, within one frame loop and across the videos.
C13_OneOutstanding == outstanding <= 1

\* The Beta page and generateDailyReport keep to one unresolved call.
SequentialCallersOneOutstanding == page # "legacyPage" => outstanding <= 1

\* One video never has two unresolved calls, on any page.
OneOutstandingPerVideo ==
  outstanding = Cardinality({v \in PoseVideoSet : analysis[v] = "estimating"})

(***************************************************************************)
(* The daily report: startAnalysis of the ClimbingDaily page loads the     *)
(* files and calls generateDailyReport, which calls analyzeClimbVideo for  *)
(* each video.  The stages of analyzeClimbVideo are one action each; the   *)
(* answers of the hold-detection service and of the pose model are inputs. *)
(* Durations are in seconds.                                               *)
(***************************************************************************)

notReport == <<coreVars, topVars, poseVars, detectVars, extraVars>>

\* The most files in a batch.
MaxVideos == 2
\* The most frames collectValidFrames looks at.
MaxValidTries == 3
HoldFrameCount == 2
HumanSampleInterval == 2
MinValidFrames == 3
RouteHoldCount == 5

VideoDurations == {1, 4}

\* A file: whether the video element can load it, and how long the video is.
VideoFiles == [loads : BOOLEAN, duration : VideoDurations]

VideoName(i) == <<"video", i>>

\* What one detectFromCanvas call does: it throws, it finds no holds, or it
\* finds the holds of a route.
HoldCallOutcomes == {"throws", "empty", "route"}

\* What one estimatePoses call meets: the model throws (caught, [] returned),
\* nobody in the frame, a person with hands but not both feet confident, a
\* person with hands and feet confident.
PoseCallOutcomes == {"throws", "nobody", "partial", "full"}

SeqsOfLen(S, n) == [1..n -> S]

Count(s, S) == Cardinality({k \in 1..Len(s) : s[k] \in S})

\* The attempt of an early return of analyzeClimbVideo.
UnknownAttempt(name, duration) ==
  [videoName |-> name, routeColor |-> "unknown", routeHoldCount |-> 0,
   isSuccess |-> FALSE, duration |-> duration, maxProgress |-> 0]

\* The attempt generateDailyReport pushes in its catch block.
FailedAttempt(name) ==
  [videoName |-> name, routeColor |-> "unknown", routeHoldCount |-> 0,
   isSuccess |-> FALSE, duration |-> 0, maxProgress |-> 0]

tooFewValidFramesBelowTwo(n) == n < MinValidFrames - 1

\* validFrames.length < 3.
tooFewValidFrames(n) == n < MinValidFrames

\* The files were chosen and the detector is initialised; startAnalysis is
\* called.
InitReport ==
  /\ videoFiles \in UNION {SeqsOfLen(VideoFiles, n) : n \in 1..MaxVideos}
  /\ videos = <<>> /\ batchAt = 0 /\ stage = "idle" /\ facts = NoFacts
  /\ attempts = <<>> /\ report = <<>> /\ bpc = "loading"
  /\ CoreIdle
  /\ TopIdle
  /\ PoseIdle
  /\ DetectIdle
  /\ ExtraIdle

\* startAnalysis: one round of the loading loop; onerror rejects, which ends
\* startAnalysis in its catch block.
LoadVideo ==
  /\ bpc = "loading"
  /\ Len(videos) < Len(videoFiles)
  /\ IF videoFiles[Len(videos) + 1].loads
     THEN /\ videos' = Append(videos, VideoName(Len(videos) + 1))
          /\ UNCHANGED bpc
     ELSE /\ bpc' = "failed"
          /\ UNCHANGED videos
  /\ UNCHANGED <<videoFiles, batchAt, stage, facts, attempts, report, notReport>>

\* startAnalysis calls generateDailyReport(videos, ...).
GenerateDailyReport ==
  /\ bpc = "loading"
  /\ Len(videos) = Len(videoFiles)
  /\ bpc' = "analyzing"
  /\ batchAt' = 1
  /\ stage' = "holds"
  /\ UNCHANGED <<videoFiles, videos, facts, attempts, report, notReport>>

\* analyzeClimbVideo returns attempt, generateDailyReport pushes it.
PushAttempt(attempt, newFacts) ==
  /\ attempts' = Append(attempts, attempt)
  /\ facts' = newFacts
  /\ stage' = "pushed"

\* analyzeClimbVideo step 1: detectHolds (detectMultiFrame catches a failed
\* call and goes on with no predictions for that frame).
DetectHolds(calls) ==
  /\ bpc = "analyzing" /\ stage = "holds"
  /\ LET routeCount == IF Count(calls, {"route"}) > 0 THEN 1 ELSE 0
         f == [facts EXCEPT !.holdCallFailed = Count(calls, {"throws"}) > 0,
                            !.routes = routeCount]
     IN IF routeCount = 0
        THEN PushAttempt(UnknownAttempt(videos[batchAt], videoFiles[batchAt].duration), f)
        ELSE /\ facts' = f /\ stage' = "human" /\ UNCHANGED attempts
  /\ UNCHANGED <<videoFiles, videos, batchAt, report, bpc, notReport>>

\* Step 2: findHumanTimeRange, floor(duration / 2) pose calls.
FindHumanTimeRange(calls) ==
  /\ bpc = "analyzing" /\ stage = "human"
  /\ Len(calls) = videoFiles[batchAt].duration \div HumanSampleInterval
  /\ LET found == Count(calls, {"partial", "full"}) > 0
         f == [facts EXCEPT !.poseCallFailed = @ \/ Count(calls, {"throws"}) > 0,
                            !.range = IF found THEN "found" ELSE "none"]
     IN IF ~found
        THEN PushAttempt(UnknownAttempt(videos[batchAt], videoFiles[batchAt].duration), f)
        ELSE /\ facts' = f /\ stage' = "valid" /\ UNCHANGED attempts
  /\ UNCHANGED <<videoFiles, videos, batchAt, report, bpc, notReport>>

\* Step 3: collectValidFrames.
CollectValidFrames(calls) ==
  /\ bpc = "analyzing" /\ stage = "valid"
  /\ LET n == Count(calls, {"full"})
         f == [facts EXCEPT !.poseCallFailed = @ \/ Count(calls, {"throws"}) > 0,
                            !.valid = n]
     IN IF tooFewValidFrames(n)
        THEN PushAttempt(UnknownAttempt(videos[batchAt], videoFiles[batchAt].duration), f)
        ELSE /\ facts' = f /\ stage' = "route" /\ UNCHANGED attempts
  /\ UNCHANGED <<videoFiles, videos, batchAt, report, bpc, notReport>>

\* Step 4: detectActiveRouteFromValidFrames returns a route or null.
DetectRoute(route) ==
  /\ bpc = "analyzing" /\ stage = "route"
  /\ LET f == [facts EXCEPT !.route = route]
     IN IF route = None
        THEN PushAttempt(UnknownAttempt(videos[batchAt], videoFiles[batchAt].duration), f)
        ELSE /\ facts' = f /\ stage' = "top" /\ UNCHANGED attempts
  /\ UNCHANGED <<videoFiles, videos, batchAt, report, bpc, notReport>>

\* Step 5 and the rest: detectTopReachWithCapture, the images, the return.
DetectTopReach(result) ==
  /\ bpc = "analyzing" /\ stage = "top"
  /\ PushAttempt([videoName |-> videos[batchAt], routeColor |-> facts.route,
                  routeHoldCount |-> RouteHoldCount, isSuccess |-> result.success,
                  duration |-> videoFiles[batchAt].duration,
                  maxProgress |-> result.maxProgress],
                 [facts EXCEPT !.scanStarted = TRUE])
  /\ UNCHANGED <<videoFiles, videos, batchAt, report, bpc, notReport>>

\* A seek or a canvas operation inside analyzeClimbVideo throws: the catch
\* block of generateDailyReport pushes the failure marker.
AnalysisThrows ==
  /\ bpc = "analyzing" /\ stage \in {"holds", "human", "valid", "route", "top"}
  /\ PushAttempt(FailedAttempt(videos[batchAt]),
                 [facts EXCEPT !.threw = TRUE,
                               !.scanStarted = @ \/ stage = "top"])
  /\ UNCHANGED <<videoFiles, videos, batchAt, report, bpc, notReport>>

\* The loop of generateDailyReport turns to the next video.
NextAttempt ==
  /\ bpc = "analyzing" /\ stage = "pushed"
  /\ batchAt < Len(videos)
  /\ batchAt' = batchAt + 1
  /\ stage' = "holds"
  /\ facts' = NoFacts
  /\ UNCHANGED <<videoFiles, videos, attempts, report, bpc, notReport>>

\* The loop ends: compileReport(attempts), setReport.
CompileReport ==
  /\ bpc = "analyzing" /\ stage = "pushed"
  /\ batchAt = Len(videos)
  /\ report' = <<attempts>>
  /\ bpc' = "reported"
  /\ UNCHANGED <<videoFiles, videos, batchAt, stage, facts, attempts, notReport>>

TopResults ==
  { [success |-> TRUE, maxProgress |-> 100],
    [success |-> FALSE, maxProgress |-> 60],
    [success |-> FALSE, maxProgress |-> 0] }

NextReport ==
  \/ LoadVideo
  \/ GenerateDailyReport
  \/ \E calls \in SeqsOfLen(HoldCallOutcomes, HoldFrameCount) : DetectHolds(calls)
  \/ \E calls \in UNION {SeqsOfLen(PoseCallOutcomes, d \div HumanSampleInterval) :
                             d \in VideoDurations} : FindHumanTimeRange(calls)
  \/ \E calls \in UNION {SeqsOfLen(PoseCallOutcomes, n) : n \in 1..MaxValidTries} :
       CollectValidFrames(calls)
  \/ \E route \in {None, "yellow"} : DetectRoute(route)
  \/ \E result \in TopResults : DetectTopReach(result)
  \/ AnalysisThrows
  \/ NextAttempt
  \/ CompileReport

SpecReport == InitReport /\ [][NextReport]_vars

LastAttempt == attempts[Len(attempts)]

\* C14: every batch ends with a report that holds exactly one attempt per
\* input video, in input order, whatever fails on the way (loading included).
C14_ReportForEveryBatch ==
  bpc \in {"reported", "failed"} =>
    /\ report # <<>>
    /\ Len(report[1]) = Len(videoFiles)
    /\ \A i \in 1..Len(videoFiles) : report[1][i].videoName = VideoName(i)

\* generateDailyReport itself returns one attempt per video it was given, in
\* order, also after attempts that threw.
GenerateDailyReportCoversBatch ==
  bpc = "reported" =>
    /\ report # <<>>
    /\ Len(report[1]) = Len(videoFiles)
    /\ \A i \in 1..Len(videoFiles) : report[1][i].videoName = VideoName(i)

\* C15: an attempt during which a hold-detection call or a pose call threw is
\* recorded with the failure marker (duration 0, route unknown, no holds, not
\* successful, progress 0).
C15_FailedCallGivesMarker ==
  (stage = "pushed" /\ (facts.holdCallFailed \/ facts.poseCallFailed)) =>
    LastAttempt = FailedAttempt(videos[batchAt])

\* The attempt after the one in which a call failed is analysed all the same.
BatchContinuesAfterFailedCall ==
  (bpc = "reported" /\ Len(attempts) >= 2 /\ attempts[1].duration = 0)
    => Len(attempts) = Len(videoFiles)

\* What the stages found is not enough to analyse the attempt.
InsufficientData ==
  \/ facts.routes = 0
  \/ facts.range = "none"
  \/ facts.valid \in 0..2
  \/ facts.route = None

EligibleEntries ==
  {k \in 1..Len(colorVotes) : colorVotes[k].handVotes > 0 /\ colorVotes[k].footVotes > 0}

\* C17: detectActiveRouteFromValidFrames returns the route of the eligible
\* colour with the greatest total, the earliest-tallied of those with the
\* greatest total, and null when no colour is eligible.
C17_BestEligibleColor ==
  (routine = "report" /\ vpc = "returned") =>
    IF EligibleEntries = {} THEN activeRoute = None
    ELSE \E k \in EligibleEntries :
           /\ activeRoute = colorVotes[k].color
           /\ \A q \in EligibleEntries :
                \/ colorVotes[q].total < colorVotes[k].total
                \/ (colorVotes[q].total = colorVotes[k].total /\ k <= q)

\* Hand votes yellow 2 and green 1, foot votes yellow 1: yellow is returned.
C17_Witness ==
  /\ routine = "report" /\ vpc = "returned"
  /\ Len(colorVotes) = 2
  /\ \E y, g \in 1..2 :
       /\ colorVotes[y] = [color |-> "yellow", handVotes |-> 2, footVotes |-> 1, total |-> 3]
       /\ colorVotes[g] = [color |-> "green", handVotes |-> 1, footVotes |-> 0, total |-> 1]
  /\ activeRoute = "yellow"

\* Two eligible colours with equal totals: the one tallied first is returned.
C17_WitnessTie ==
  /\ routine = "report" /\ vpc = "returned"
  /\ Len(colorVotes) = 2
  /\ EligibleEntries = {1, 2}
  /\ colorVotes[1].total = colorVotes[2].total
  /\ activeRoute = colorVotes[1].color

(***************************************************************************)
(* The two ActionRecognizer classes on the frames of a hand that slides    *)
(* between two neighbouring holds (yellow_3 and green_6, 60 px apart).     *)
(***************************************************************************)

\* Away from the wall; the left hand between the two holds, nearer to the
\* centre of yellow_3, and 2 px further, nearer to the centre of green_6; the
\* same for the corners of the holds, which the legacy class measures to; the
\* left foot on yellow_1; the left hand with a score of exactly 0.3 and with a
\* score of 0.2; nobody in the frame.
LimbPoses ==
  { FullPose(BaseKeypoints),
    FullPose([BaseKeypoints EXCEPT !.left_wrist = Kp(139, 310, 9)]),
    FullPose([BaseKeypoints EXCEPT !.left_wrist = Kp(141, 310, 9)]),
    FullPose([BaseKeypoints EXCEPT !.left_wrist = Kp(129, 305, 9)]),
    FullPose([BaseKeypoints EXCEPT !.left_wrist = Kp(131, 305, 9)]),
    FullPose([BaseKeypoints EXCEPT !.left_ankle = Kp(105, 505, 9)]),
    FullPose([BaseKeypoints EXCEPT !.left_wrist = Kp(139, 310, 3)]),
    FullPose([BaseKeypoints EXCEPT !.left_wrist = Kp(139, 310, 2)]),
    EmptyPose }

NextLimb ==
  \/ \E pose \in LimbPoses : UpdateClimbReport(pose)
  \/ \E pose \in LimbPoses : UpdateLegacy(pose)
  \/ ResetClimbReport
  \/ ResetLegacy

SpecLimb == InitRec /\ [][NextLimb]_vars

\* The limb's keypoint is handled by this update: it is in the pose with a
\* score above 0.3 (legacy: not below 0.3, and the previous pose has it too).
LimbProcessed(l, pose) ==
  /\ ~pose.empty
  /\ IF recognizer = "climbReport"
     THEN pose.kps[KeypointName(l)].score > 3
     ELSE /\ prevPose # <<>>
          /\ ~prevPose[1].empty
          /\ pose.kps[KeypointName(l)].score >= 3

\* The limb's displacement from its last recorded position exceeds the move
\* threshold (3 px, legacy 2 px).
DisplacementExceeds(l, pose) ==
  LET kp == pose.kps[KeypointName(l)]
  IN IF recognizer = "climbReport"
     THEN DistSq(kp.x, kp.y, limbStates[l].lastPos.x, limbStates[l].lastPos.y) > 3 * 3
     ELSE LET prevKp == prevPose[1].kps[KeypointName(l)]
          IN DistSq(kp.x, kp.y, prevKp.x, prevKp.y) > 2 * 2

\* The hold nearest to the limb's keypoint, if within the holding distance
\* (40 px of the centre, legacy 30 px of the corner); None otherwise.
HoldInReach(l, pose) ==
  LET kp == pose.kps[KeypointName(l)]
      k == IF recognizer = "climbReport" THEN recognizerFindNearestHold(kp)
           ELSE legacyFindNearestHold(kp, RecHolds)
  IN IF k # 0 /\ WithinHoldingDistance(recognizer, kp, RecHolds[k].id)
     THEN RecHolds[k].id ELSE None

\* What C18 says of one update call that showed pose.
LimbTransitions(pose) ==
  \A l \in LimbSet :
    LimbProcessed(l, pose) =>
      LET contacts == ContactsOf(Appended(betaSequence, betaSequence'), l)
          X == HoldInReach(l, pose)
      IN /\ DisplacementExceeds(l, pose) =>
              /\ limbStates'[l].state \in {"moving", "Moving"}
              /\ limbStates'[l].holdId = None
              /\ contacts = <<>>
         /\ (/\ ~DisplacementExceeds(l, pose)
             /\ X # None
             /\ ~(Holding(l) /\ limbStates[l].holdId = X)) =>
              /\ limbStates'[l].state \in {"holding", "Holding"}
              /\ limbStates'[l].holdId = X
              /\ recognizer = "climbReport" => X \in touchedHolds'
              /\ Len(contacts) = 1
              /\ contacts[1].holdId = X
              /\ contacts[1].type = (IF l \in {"leftHand", "rightHand"} THEN "Grab" ELSE "Step")

LastKnownPos(l) ==
  IF recognizer = "climbReport" THEN limbStates[l].lastPos
  ELSE IF prevPose = <<>> \/ prevPose[1].empty THEN [x |-> -1, y |-> -1]
  ELSE [x |-> prevPose[1].kps[KeypointName(l)].x, y |-> prevPose[1].kps[KeypointName(l)].y]

\* What C19 says of one update call that showed pose.
SkippedLimbsUnchanged(pose) ==
  /\ \A l \in LimbSet :
       (pose.empty \/ pose.kps[KeypointName(l)].score <= 3) =>
         /\ limbStates'[l].state = limbStates[l].state
         /\ limbStates'[l].holdId = limbStates[l].holdId
         /\ LastKnownPos(l)' = LastKnownPos(l)
  /\ pose.empty =>
       UNCHANGED <<limbStates, betaSequence, touchedHolds, recActiveRoute, progress,
                   startTime, prevPose>>

\* C19: a limb whose keypoint is absent or has a confidence of at most 0.3
\* keeps its phase, its held hold and its last-known position through the
\* update, and an update with an empty pose changes nothing in the recognizer.
C19_SkippedLimbUnchanged ==
  [][\A pose \in LimbPoses :
       (UpdateClimbReport(pose) \/ UpdateLegacy(pose)) => SkippedLimbsUnchanged(pose)]_vars

\* The class of climb_report.ts does leave a skipped limb, and on an empty
\* pose its whole state, unchanged.
ClimbReportSkippedLimbUnchanged ==
  [][\A pose \in LimbPoses : UpdateClimbReport(pose) => SkippedLimbsUnchanged(pose)]_vars

(***************************************************************************)
(* Timestamps of the recorded actions (SpecRec).  The model keeps them in  *)
(* milliseconds: timestamp - startTime, before the division by 1000.       *)
(***************************************************************************)

\* The time of the frame that produced an action, as its id records it.
FrameTimeOf(a) == IF a.type \in {"Grab", "Step"} THEN a.id[1] ELSE a.id[2]

\* C20: the timestamp of every recorded action is the time from the first
\* frame processed since construction or reset to the frame that produced the
\* action; it is never negative, and the timestamps do not decrease along the
\* sequence.
C20_TimestampFromSequenceStart ==
  \A k \in 1..Len(betaSequence) :
    /\ betaSequence[k].timestamp = FrameTimeOf(betaSequence[k]) - firstFrame
    /\ betaSequence[k].timestamp >= 0
    /\ k > 1 => betaSequence[k - 1].timestamp <= betaSequence[k].timestamp

\* In both classes the timestamps do not decrease along the sequence, and
\* those of the climb_report.ts class are never negative.
TimestampsOrdered ==
  \A k \in 1..Len(betaSequence) :
    /\ recognizer = "climbReport" => betaSequence[k].timestamp >= 0
    /\ k > 1 => betaSequence[k - 1].timestamp <= betaSequence[k].timestamp

\* The climb_report.ts class counts from the first processed frame when that
\* frame's time is not 0.
ClimbReportTimestampUnlessZeroStart ==
  (recognizer = "climbReport" /\ firstFrame > 0) =>
    \A k \in 1..Len(betaSequence) :
      betaSequence[k].timestamp = FrameTimeOf(betaSequence[k]) - firstFrame

(***************************************************************************)
(* The advanced-move detectors of both ActionRecognizer classes (SpecRec). *)
(***************************************************************************)

\* The actions of one limb, in the order of the sequence.
ActionsOf(acts, limb) == SelectSeq(acts, LAMBDA a : a.limb = limb)

NoTwoConsecutive(acts, type) ==
  \A k \in 1..(Len(acts) - 1) : ~(acts[k].type = type /\ acts[k + 1].type = type)

\* C21: among the actions of either foot no two consecutive ones are HeelHook,
\* and among the actions of the right hand no two consecutive ones are
\* Crossover.
C21_Debounce ==
  /\ NoTwoConsecutive(ActionsOf(betaSequence, "leftFoot"), "HeelHook")
  /\ NoTwoConsecutive(ActionsOf(betaSequence, "rightFoot"), "HeelHook")
  /\ NoTwoConsecutive(ActionsOf(betaSequence, "rightHand"), "Crossover")

\* The legacy class has recorded a HeelHook of the left foot on yellow_2, and
\* a later frame showed the hooked foot again, still holding, and added none.
C21_Witness ==
  /\ recognizer = "legacy"
  /\ prevPose # <<>>
  /\ ~prevPose[1].empty
  /\ HeelHookPosture(prevPose[1], "left")
  /\ limbStates["leftFoot"].state = "Holding"
  /\ LET own == ActionsOf(betaSequence, "leftFoot")
     IN /\ Len(own) > 0
        /\ own[Len(own)].type = "HeelHook"
        /\ own[Len(own)].holdId = "yellow_2"
        /\ FrameTimeOf(own[Len(own)]) < clock - FrameStep

(***************************************************************************)
(* The crossover detectors on the frames of a right hand that reaches      *)
(* across the body to yellow_3 (the nose is at x = 150).                   *)
(***************************************************************************)

\* Away from the wall; the right hand on yellow_3, 45 px left of the nose; the
\* right hand on yellow_3, 25 px left of the nose; nobody in the frame.
CrossPoses ==
  { FullPose(BaseKeypoints),
    FullPose([BaseKeypoints EXCEPT !.right_wrist = Kp(105, 305, 9)]),
    FullPose([BaseKeypoints EXCEPT !.right_wrist = Kp(125, 305, 9)]),
    EmptyPose }

NextCross ==
  \/ \E pose \in CrossPoses : UpdateClimbReport(pose)
  \/ \E pose \in CrossPoses : UpdateLegacy(pose)
  \/ ResetClimbReport
  \/ ResetLegacy

SpecCross == InitRec /\ [][NextCross]_vars

\* The frame shows the right wrist left of the nose by more than margin, and
\* the right hand is holding once the limbs have been updated.
CrossedWhileHolding(pose, margin) ==
  /\ ~pose.empty
  /\ limbStates'["rightHand"].state \in {"holding", "Holding"}
  /\ pose.kps.right_wrist.x < pose.kps.nose.x - margin

\* After the update the right hand's most recent action is a Crossover; one
\* emitted by this update carries the held hold.
CrossoverRecorded ==
  LET own == ActionsOf(betaSequence', "rightHand")
      new == ActionsOf(Appended(betaSequence, betaSequence'), "rightHand")
  IN /\ Len(own) > 0
     /\ own[Len(own)].type = "Crossover"
     /\ Len(new) > 0 => new[Len(new)].holdId = limbStates'["rightHand"].holdId

\* C22: an update with a frame in which the right hand is holding and the
\* right wrist is left of the nose (rWrist.x < nose.x) emits a Crossover of
\* the right hand on the held hold, unless the right hand's most recent
\* action is a Crossover already.
C22_CrossoverLeftOfNose ==
  [][\A pose \in CrossPoses :
       ((UpdateClimbReport(pose) \/ UpdateLegacy(pose)) /\ CrossedWhileHolding(pose, 0))
         => CrossoverRecorded]_vars

\* The legacy class does so; the class of climb_report.ts does so when the
\* wrist is more than 30 px left of the nose.
CrossoverBeyondMargin ==
  [][\A pose \in CrossPoses :
       /\ (UpdateLegacy(pose) /\ CrossedWhileHolding(pose, 0)) => CrossoverRecorded
       /\ (UpdateClimbReport(pose) /\ CrossedWhileHolding(pose, CrossoverMargin))
             => CrossoverRecorded]_vars

(***************************************************************************)
(* detectHolds (hold_detector.ts): per-frame detection, colour correction, *)
(* mergeDetections, removeOverlappingHolds, groupHoldsToRoutes.            *)
(***************************************************************************)

notDetect == <<coreVars, topVars, poseVars, reportVars, extraVars>>

\* The most predictions the frames of one video give.
MaxDetections == 3
OVERLAP_THRESHOLD == 35

\* Three places on one line: the second is 30 px from the first, the third
\* 41 px from the first and 11 px from the second.
DetectPoints == {<<100, 100>>, <<130, 100>>, <<141, 100>>}
DetectConfidences == {6, 9}
DetectColors == {"yellow", "green"}

\* What detectFromCanvas returns and detectMultiFrame keeps.
DetectPredictions ==
  {[x |-> p[1], y |-> p[2], confidence |-> c, class |-> <<k>>] :
     p \in DetectPoints, c \in {q \in DetectConfidences : q >= MinConfidence},
     k \in DetectColors}

\* The detector gives one prediction for a place and class in a frame.
DistinctInFrame(preds) ==
  \A i, j \in 1..Len(preds) :
    i < j => ~(/\ preds[i].x = preds[j].x /\ preds[i].y = preds[j].y
               /\ preds[i].class = preds[j].class)

Prediction(x, y, confidence, color) ==
  [x |-> x, y |-> y, confidence |-> confidence, class |-> <<color>>]

\* A wall with a yellow route of five holds; the first frame takes the third
\* hold for a green one, the second frame sees only that hold, as yellow.
WallFrameResults ==
  << << Prediction(100, 100, 9, "yellow"), Prediction(100, 200, 9, "yellow"),
        Prediction(100, 300, 9, "green"), Prediction(100, 400, 9, "yellow"),
        Prediction(100, 500, 9, "yellow") >>,
     << Prediction(102, 300, 9, "yellow") >> >>

\* The results of detectMultiFrame on HoldFrameCount = 2 frames: the first c
\* predictions of s are those of the first frame, the rest those of the second.
SplitAt(s, c) == <<SubSeq(s, 1, c), SubSeq(s, c + 1, Len(s))>>

\* The colours correctColors can give the predictions of each detected
\* colour: as detected, or all in the one cluster "yellow".
Recolorings ==
  {[c \in DetectColors |-> c], [c \in DetectColors |-> "yellow"]}

\* frameResults.flat()
RECURSIVE Flat(_)
Flat(frs) == IF frs = <<>> THEN <<>> ELSE Head(frs) \o Flat(Tail(frs))

\* class: `${correctedPred.corrected_color}-hold`
CorrectedFrame(preds, recolor) ==
  [k \in 1..Len(preds) |->
     [preds[k] EXCEPT !.class = <<recolor[getMainColor(preds[k].class)]>>]]

\* The loop of mergeDetections over the predictions of all frames.
RECURSIVE MergeLoop(_, _)
MergeLoop(preds, ms) ==
  IF preds = <<>> THEN ms
  ELSE LET pred == Head(preds)
           k == FirstMatch(pred, ms)
       IN MergeLoop(Tail(preds),
                    IF k # 0 THEN [ms EXCEPT ![k] = AbsorbInto(ms[k], pred)]
                    ELSE Append(ms, NewMerge(pred)))

mergeDetections(frs) == SelectSeq(MergeLoop(Flat(frs), <<>>), KeepMerge)

\* sqrt((a.avgX - b.avgX)^2 + (a.avgY - b.avgY)^2) < limit
CentresWithin(a, b, limit) ==
  LET dxn == a.avgX.num * b.avgX.den - b.avgX.num * a.avgX.den
      dxd == a.avgX.den * b.avgX.den
      dyn == a.avgY.num * b.avgY.den - b.avgY.num * a.avgY.den
      dyd == a.avgY.den * b.avgY.den
  IN dxn * dxn * dyd * dyd + dyn * dyn * dxd * dxd < limit * limit * dxd * dxd * dyd * dyd

\* Math.max(...hold.predictions.map(p => p.confidence))
MaxConfidence(m) ==
  CHOOSE c \in {m.predictions[k].confidence : k \in 1..Len(m.predictions)} :
    \A k \in 1..Len(m.predictions) : m.predictions[k].confidence <= c

\* Mutation of FirstWins: on equal confidence the later hold is kept.
FirstWinsStrictly(hold1, hold2) == MaxConfidence(hold1) > MaxConfidence(hold2)

\* conf1 >= conf2
FirstWins(hold1, hold2) == MaxConfidence(hold1) >= MaxConfidence(hold2)

\* The inner loop of removeOverlappingHolds for hold i, from j on.
RECURSIVE OverlapInner(_, _, _, _)
OverlapInner(holds, i, j, removed) ==
  IF j > Len(holds) THEN [removed |-> removed, keepThis |-> TRUE]
  ELSE IF \/ j \in removed
          \/ holds[i].color = holds[j].color
          \/ ~CentresWithin(holds[i], holds[j], OVERLAP_THRESHOLD)
       THEN OverlapInner(holds, i, j + 1, removed)
       ELSE IF FirstWins(holds[i], holds[j])
            THEN OverlapInner(holds, i, j + 1, removed \cup {j})
            ELSE [removed |-> removed \cup {i}, keepThis |-> FALSE]

\* Mutation of OverlapOuter: a hold marked as removed is still visited.
RECURSIVE OverlapOuterVisitsRemoved(_, _, _, _)
OverlapOuterVisitsRemoved(holds, i, removed, result) ==
  IF i > Len(holds) THEN result
  ELSE LET r == OverlapInner(holds, i, i + 1, removed)
       IN OverlapOuterVisitsRemoved(holds, i + 1, r.removed,
                                    IF r.keepThis THEN Append(result, holds[i]) ELSE result)

\* The outer loop of removeOverlappingHolds, from i on.
RECURSIVE OverlapOuter(_, _, _, _)
OverlapOuter(holds, i, removed, result) ==
  IF i > Len(holds) THEN result
  ELSE IF i \in removed THEN OverlapOuter(holds, i + 1, removed, result)
  ELSE LET r == OverlapInner(holds, i, i + 1, removed)
       IN OverlapOuter(holds, i + 1, r.removed,
                       IF r.keepThis THEN Append(result, holds[i]) ELSE result)

removeOverlappingHolds(mergedHolds) == OverlapOuter(mergedHolds, 1, {}, <<>>)

\* The MergedHold as groupHoldsToRoutes reads it, with avgX and avgY in
\* twelfths of a pixel (a merged hold has 1, 2, 3 or 4 predictions).
FractionScale == 12

AsRouteInput(ms) ==
  [k \in 1..Len(ms) |->
     [color |-> ms[k].color,
      x |-> (FractionScale * ms[k].avgX.num) \div ms[k].avgX.den,
      y |-> (FractionScale * ms[k].avgY.num) \div ms[k].avgY.den]]

InitDetect ==
  /\ CoreIdle
  /\ VideoIdle

\* Steps 1 and 2: sampleFrames and detectMultiFrame have resolved.
DetectMultiFrame(frs) ==
  /\ hpc = "idle"
  /\ hFrameResults' = frs
  /\ hStages' = <<"detection">>
  /\ hpc' = "detected"
  /\ UNCHANGED <<hCorrectInput, hMerged, hFusionOut, hMergedHolds, hRoutes, notDetect>>

\* Step 2.5: applyColorCorrection has resolved with corrected classes.
ApplyColorCorrection(recolor) ==
  /\ hpc = "detected"
  /\ ~(Len(Flat(hFrameResults)) < 3)
  /\ hCorrectInput' = <<Flat(hFrameResults)>>
  /\ hFrameResults' = [f \in 1..Len(hFrameResults) |->
                          CorrectedFrame(hFrameResults[f], recolor)]
  /\ hStages' = Append(hStages, "colorCorrection")
  /\ hpc' = "corrected"
  /\ UNCHANGED <<hMerged, hFusionOut, hMergedHolds, hRoutes, notDetect>>

\* Mutation of MergeAndGroup: the detections are merged as they were before
\* the colour correction.
MergeAndGroupUncorrected ==
  /\ hpc \in {"detected", "corrected"}
  /\ hMerged' = MergeLoop(IF hCorrectInput = <<>> THEN Flat(hFrameResults)
                          ELSE hCorrectInput[1], <<>>)
  /\ hFusionOut' = SelectSeq(hMerged', KeepMerge)
  /\ hMergedHolds' = removeOverlappingHolds(hFusionOut')
  /\ hRoutes' = groupHoldsToRoutes(AsRouteInput(hMergedHolds'))
  /\ hStages' = hStages \o <<"fusion", "overlapRemoval", "routeBuilding">>
  /\ hpc' = "returned"
  /\ UNCHANGED <<hFrameResults, hCorrectInput, notDetect>>

\* Steps 3 to 5 and the return.  They also follow the detection at once when
\* the correction is disabled, finds fewer than 3 predictions, or fails.
MergeAndGroup ==
  /\ hpc \in {"detected", "corrected"}
  /\ hMerged' = MergeLoop(Flat(hFrameResults), <<>>)
  /\ hFusionOut' = mergeDetections(hFrameResults)
  /\ hMergedHolds' = removeOverlappingHolds(hFusionOut')
  /\ hRoutes' = groupHoldsToRoutes(AsRouteInput(hMergedHolds'))
  /\ hStages' = hStages \o <<"fusion", "overlapRemoval", "routeBuilding">>
  /\ hpc' = "returned"
  /\ UNCHANGED <<hFrameResults, hCorrectInput, notDetect>>

NextDetect ==
  \/ /\ hpc = "idle"
     /\ \E s \in SeqsUpTo(DetectPredictions, MaxDetections), c \in 0..MaxDetections :
          /\ c <= Len(s)
          /\ DistinctInFrame(SubSeq(s, 1, c)) /\ DistinctInFrame(SubSeq(s, c + 1, Len(s)))
          /\ DetectMultiFrame(SplitAt(s, c))
  \/ hpc = "idle" /\ DetectMultiFrame(WallFrameResults)
  \/ \E recolor \in Recolorings : ApplyColorCorrection(recolor)
  \/ MergeAndGroup

SpecDetect == InitDetect /\ [][NextDetect]_vars

(***************************************************************************)
(* detectHolds: properties of the fusion                                   *)
(***************************************************************************)

\* The predictions of all frames in order, each with the frame it is from.
TaggedFlat(frs) ==
  Flat([f \in 1..Len(frs) |->
          [k \in 1..Len(frs[f]) |->
             [x |-> frs[f][k].x, y |-> frs[f][k].y, confidence |-> frs[f][k].confidence,
              class |-> frs[f][k].class, frame |-> f]]])

\* The frames that support the k-th merged hold of hMerged.
SupportingFrames(k) ==
  LET m == MergeLoop(TaggedFlat(hFrameResults), <<>>)[k]
  IN {m.predictions[q].frame : q \in 1..Len(m.predictions)}

BestConfidenceBelow(m, limit) ==
  \A q \in 1..Len(m.predictions) : m.predictions[q].confidence < limit

Discarded(m) == ~\E q \in 1..Len(hFusionOut) : hFusionOut[q] = m

\* C23: the noise filter of the fusion discards a merged hold if and only if
\* exactly one frame supports it and its best confidence is below 0.7.
C23_NoiseFilter ==
  hpc = "returned" =>
    \A k \in 1..Len(hMerged) :
      Discarded(hMerged[k]) <=>
        (Cardinality(SupportingFrames(k)) = 1
           /\ BestConfidenceBelow(hMerged[k], NoiseConfidence))

\* The filter counts the predictions of a merged hold, not its frames: it
\* discards the merged holds of one prediction with a confidence below 0.7.
NoiseFilterCountsPredictions ==
  hpc = "returned" =>
    \A k \in 1..Len(hMerged) :
      Discarded(hMerged[k]) <=>
        (Len(hMerged[k].predictions) = 1
           /\ BestConfidenceBelow(hMerged[k], NoiseConfidence))

\* C24: for every sequence of per-frame detections, no two merged holds of
\* the same colour returned by mergeDetections have centres within
\* mergeThreshold pixels of each other.
C24_Deduplicated ==
  hpc = "returned" =>
    \A i, j \in 1..Len(hFusionOut) :
      (i < j /\ hFusionOut[i].color = hFusionOut[j].color) =>
        ~CentresWithin(hFusionOut[i], hFusionOut[j], MergeThreshold)

\* Two merged holds of one colour that absorbed nothing after they were
\* started are mergeThreshold pixels or more apart.
UnmovedMergesApart ==
  hpc = "returned" =>
    \A i, j \in 1..Len(hFusionOut) :
      (/\ i < j /\ hFusionOut[i].color = hFusionOut[j].color
       /\ Len(hFusionOut[i].predictions) = 1 /\ Len(hFusionOut[j].predictions) = 1) =>
        ~CentresWithin(hFusionOut[i], hFusionOut[j], MergeThreshold)

\* C25: no two holds that removeOverlappingHolds returns have different
\* colours and centres within OVERLAP_THRESHOLD (35 px) of each other, and
\* removeOverlappingHolds applied to what it returned removes nothing.
C25_Deoverlapped ==
  hpc = "returned" =>
    /\ \A i, j \in 1..Len(hMergedHolds) :
         (i < j /\ hMergedHolds[i].color # hMergedHolds[j].color) =>
           ~CentresWithin(hMergedHolds[i], hMergedHolds[j], OVERLAP_THRESHOLD)
    /\ removeOverlappingHolds(hMergedHolds) = hMergedHolds

\* Of three merged holds one was removed as overlapping; the two that stay
\* are more than the threshold apart or of one colour.
C25_Witness ==
  /\ hpc = "returned"
  /\ Len(hFusionOut) = 3
  /\ Len(hMergedHolds) = 2

InOutput(m) == \E q \in 1..Len(hMergedHolds) : hMergedHolds[q] = m

\* Merged holds i and j of mergeDetections' result have different colours and
\* centres within the overlap threshold.
Overlapping(i, j) ==
  /\ hFusionOut[i].color # hFusionOut[j].color
  /\ CentresWithin(hFusionOut[i], hFusionOut[j], OVERLAP_THRESHOLD)

\* Of the overlapping pair i < j, the one with the higher maximum confidence,
\* the first on a tie, is in the output and the other is not.
HigherConfidenceOnly(i, j) ==
  IF MaxConfidence(hFusionOut[i]) >= MaxConfidence(hFusionOut[j])
  THEN InOutput(hFusionOut[i]) /\ ~InOutput(hFusionOut[j])
  ELSE InOutput(hFusionOut[j]) /\ ~InOutput(hFusionOut[i])

\* C26 as stated: of any two merged holds of different colours with centres
\* within the overlap threshold, removeOverlappingHolds keeps the one with the
\* higher maximum confidence (the first on a tie) and not the other.
C26_HigherConfidenceKept ==
  hpc = "returned" =>
    \A i, j \in 1..Len(hFusionOut) :
      (i < j /\ Overlapping(i, j)) => HigherConfidenceOnly(i, j)

\* C26 amended: of any two such merged holds at most one is in the output,
\* and when no third hold overlaps either of the two it is the one with the
\* higher maximum confidence (the first on a tie).
C26_HigherConfidenceOfLonePair ==
  hpc = "returned" =>
    \A i, j \in 1..Len(hFusionOut) :
      (i < j /\ Overlapping(i, j)) =>
        /\ ~(InOutput(hFusionOut[i]) /\ InOutput(hFusionOut[j]))
        /\ (\A k \in 1..Len(hFusionOut) \ {i, j} :
              ~Overlapping(k, i) /\ ~Overlapping(k, j))
             => HigherConfidenceOnly(i, j)

\* Two overlapping merged holds of equal confidence next to a third that
\* overlaps neither: the first of the two is kept, the second is not.
C26_Witness ==
  /\ hpc = "returned"
  /\ Len(hFusionOut) = 3
  /\ \E i, j \in 1..3 :
       /\ i < j /\ Overlapping(i, j)
       /\ \A k \in 1..3 \ {i, j} : ~Overlapping(k, i) /\ ~Overlapping(k, j)
       /\ MaxConfidence(hFusionOut[i]) = MaxConfidence(hFusionOut[j])
       /\ InOutput(hFusionOut[i]) /\ ~InOutput(hFusionOut[j])

(***************************************************************************)
(* detectHolds: the order of its stages                                    *)
(***************************************************************************)

\* Stage a has run before every run of stage b.
StageBefore(a, b) ==
  \A k \in 1..Len(hStages) :
    hStages[k] = b => \E q \in 1..(k - 1) : hStages[q] = a

\* C27 as stated: the fusion runs before the colour correction, which works
\* on the fused candidates, and the routes are built after both.
C27_FusionThenCorrection ==
  /\ StageBefore("fusion", "colorCorrection")
  /\ StageBefore("fusion", "routeBuilding")
  /\ hCorrectInput # <<>> => StageBefore("colorCorrection", "routeBuilding")

PredictionsOf(ms) == Flat([k \in 1..Len(ms) |-> ms[k].predictions])

SamePlace(p, q) == p.x = q.x /\ p.y = q.y /\ p.confidence = q.confidence

\* C27 amended: the colour correction, when it runs, runs before the fusion
\* and works on the detections of all frames as detected, one entry for each;
\* the fusion merges the detections with their corrected classes; the routes
\* are built last, from the merged holds left by the overlap removal.
C27_CorrectionThenFusion ==
  /\ hCorrectInput # <<>> =>
       /\ StageBefore("colorCorrection", "fusion")
       /\ Len(hCorrectInput[1]) = Len(Flat(hFrameResults))
       /\ \A k \in 1..Len(hCorrectInput[1]) :
            SamePlace(hCorrectInput[1][k], Flat(hFrameResults)[k])
  /\ hpc = "corrected" => hMerged = <<>>
  /\ StageBefore("fusion", "routeBuilding")
  /\ hpc = "returned" =>
       /\ Len(PredictionsOf(hMerged)) = Len(Flat(hFrameResults))
       /\ \A k \in 1..Len(PredictionsOf(hMerged)) :
            \E q \in 1..Len(Flat(hFrameResults)) :
              PredictionsOf(hMerged)[k] = Flat(hFrameResults)[q]
       /\ \A r \in 1..Len(hRoutes) :
            \A h \in 1..Len(hRoutes[r].holds) :
              \E q \in 1..Len(hMergedHolds) :
                /\ hMergedHolds[q].color = hRoutes[r].color
                /\ AsRouteInput(hMergedHolds)[q].y = hRoutes[r].holds[h].y

\* The wall's third hold, detected as green, was corrected to yellow before
\* the fusion, and the yellow route of five holds was built with it.
C27_Witness ==
  /\ hpc = "returned"
  /\ hStages = <<"detection", "colorCorrection", "fusion", "overlapRemoval",
                 "routeBuilding">>
  /\ hCorrectInput = <<Flat(WallFrameResults)>>
  /\ Len(hRoutes) = 1
  /\ hRoutes[1].color = "yellow"
  /\ Len(hRoutes[1].holds) = 5
  /\ hRoutes[1].holds[3].y = FractionScale * 300

(***************************************************************************)
(* groupHoldsToRoutes: the names of the holds (SpecRoute)                  *)
(***************************************************************************)

\* The holds of all routes, route after route.
RouteHoldsOf(rs) == Flat([k \in 1..Len(rs) |-> rs[k].holds])

\* C28: in every route of n holds built by groupHoldsToRoutes the holds are
\* listed from the top down, the topmost has id color_TOP, isTop true and
\* order n, every other hold has isTop false and id color_order, its order
\* being its position counted from the bottom (lowest hold = 1); the ids of
\* allHolds are pairwise distinct and allHolds holds exactly the holds of
\* the routes.
C28_HoldNames ==
  rpc = "groupHoldsToRoutes" =>
    /\ \A r \in 1..Len(routes) :
         LET n == Len(routes[r].holds) IN
         \A k \in 1..n :
           LET h == routes[r].holds[k] IN
           /\ k > 1 => routes[r].holds[k - 1].y <= h.y
           /\ h.order = n - k + 1
           /\ h.isTop = (k = 1)
           /\ h.id = <<routes[r].color, IF k = 1 THEN "TOP" ELSE DecimalString(h.order)>>
    /\ \A i, j \in 1..Len(allHolds) : i # j => allHolds[i].id # allHolds[j].id
    /\ LET inRoutes == RouteHoldsOf(routes) IN
       /\ Len(allHolds) = Len(inRoutes)
       /\ \A i \in 1..Len(allHolds) :
            \E q \in 1..Len(inRoutes) : inRoutes[q] = allHolds[i]

\* The wall of two routes: ten holds with ten names, the green route's first
\* in allHolds.
C28_Witness ==
  /\ rpc = "groupHoldsToRoutes"
  /\ Len(routes) = 2
  /\ Len(allHolds) = 10
  /\ allHolds[1].id = <<"green", "TOP">>
  /\ allHolds[5].id = <<"green", "1">>
  /\ allHolds[6].id = <<"yellow", "TOP">>
  /\ allHolds[7].id = <<"yellow", "4">>

\* A route of five holds next to a hold of another colour, which is neither
\* in a route nor in allHolds.
C28_WitnessUnsurfaced ==
  /\ rpc = "groupHoldsToRoutes"
  /\ Len(rInput) = 6
  /\ Len(routes) = 1
  /\ Len(allHolds) = 5

(***************************************************************************)
(* ActionRecognizer: the limb states and the emitted actions               *)
(***************************************************************************)

\* C33: in every state of a recognizer each of the four limbs has a held hold
\* id exactly when its phase is holding; idle, moving, Unknown and Reaching
\* limbs carry none.
C33_HeldIffHolding ==
  \A l \in LimbSet : (limbStates[l].holdId # None) <=> Holding(l)

\* The left hand grabbed yellow_3 and moved off again, and the left foot is
\* on yellow_1.
C33_Witness ==
  /\ recognizer = "climbReport"
  /\ limbStates["leftHand"].state = "moving"
  /\ \E k \in 1..Len(betaSequence) :
       betaSequence[k].limb = "leftHand" /\ betaSequence[k].holdId = "yellow_3"
  /\ limbStates["leftFoot"].state = "holding"
  /\ limbStates["leftFoot"].holdId = "yellow_1"

\* C34: an update call never removes a touched hold, only appends to the beta
\* sequence, leaves a set active route as it is and never lowers progress.
C34_Monotone ==
  [][lastOp' = "update" =>
       /\ touchedHolds \subseteq touchedHolds'
       /\ Len(betaSequence') >= Len(betaSequence)
       /\ SubSeq(betaSequence', 1, Len(betaSequence)) = betaSequence
       /\ recActiveRoute # None => recActiveRoute' = recActiveRoute
       /\ progress' >= progress]_vars

\* The yellow route became active with the grab of yellow_3; a later step on
\* green_4 was recorded and touched without changing route or progress.
C34_Witness ==
  /\ recognizer = "climbReport"
  /\ recActiveRoute = "yellow"
  /\ touchedHolds = {"yellow_3", "green_4"}
  /\ Len(betaSequence) = 2
  /\ betaSequence[2].holdId = "green_4"
  /\ progress = 20

HandLimbs == {"leftHand", "rightHand"}
FootLimbs == {"leftFoot", "rightFoot"}

\* C35: every emitted action is a Grab, Step, HeelHook or Crossover; a Grab
\* is a hand's, a Step or HeelHook a foot's, a Crossover the right hand's; a
\* Grab or Step carries the id of an existing hold.
C35_ActionTypes ==
  \A k \in 1..Len(betaSequence) :
    LET a == betaSequence[k] IN
    /\ a.type \in {"Grab", "Step", "HeelHook", "Crossover"}
    /\ a.type = "Grab" => a.limb \in HandLimbs
    /\ a.type \in {"Step", "HeelHook"} => a.limb \in FootLimbs
    /\ a.type = "Crossover" => a.limb = "rightHand"
    /\ a.type \in {"Grab", "Step"} =>
         \E q \in 1..Len(RecHolds) : RecHolds[q].id = a.holdId

\* A sequence with all four types: a step and a heel hook of the left foot,
\* then a grab and a crossover of the right hand.
C35_Witness ==
  /\ Len(betaSequence) = 4
  /\ betaSequence[1].type = "Step" /\ betaSequence[1].limb = "leftFoot"
  /\ betaSequence[2].type = "HeelHook" /\ betaSequence[2].limb = "leftFoot"
  /\ betaSequence[3].type = "Grab" /\ betaSequence[3].limb = "rightHand"
  /\ betaSequence[4].type = "Crossover" /\ betaSequence[4].limb = "rightHand"

(***************************************************************************)
(* ActionRecognizer: limbs that drift, low-confidence keypoints and large  *)
(* holds                                                                   *)
(***************************************************************************)

\* The poses a frame can show: away from the wall; the left wrist 39 px and
\* 41 px left of the centre of yellow_3; the left wrist 29 px and 31 px above
\* the recorded position of yellow_3; the left foot on yellow_1 with a
\* straight leg; the left leg hooked with an ankle score of 0.2; the right
\* hand on yellow_3; the right wrist there with a score of 0.2; the right
\* foot exactly at the recorded position of green_5; nobody in the frame.
DriftPoses ==
  { FullPose(BaseKeypoints),
    FullPose([BaseKeypoints EXCEPT !.left_wrist = Kp(71, 310, 9)]),
    FullPose([BaseKeypoints EXCEPT !.left_wrist = Kp(69, 310, 9)]),
    FullPose([BaseKeypoints EXCEPT !.left_wrist = Kp(100, 271, 9)]),
    FullPose([BaseKeypoints EXCEPT !.left_wrist = Kp(100, 269, 9)]),
    FullPose([BaseKeypoints EXCEPT !.left_ankle = Kp(105, 505, 9)]),
    FullPose([BaseKeypoints EXCEPT !.left_ankle = Kp(105, 505, 2),
                                   !.left_knee = Kp(120, 520, 9)]),
    FullPose([BaseKeypoints EXCEPT !.right_wrist = Kp(105, 305, 9)]),
    FullPose([BaseKeypoints EXCEPT !.right_wrist = Kp(105, 305, 2)]),
    FullPose([BaseKeypoints EXCEPT !.right_ankle = Kp(400, 400, 9)]),
    EmptyPose }

NextDrift ==
  \/ \E pose \in DriftPoses : UpdateClimbReport(pose)
  \/ \E pose \in DriftPoses : UpdateLegacy(pose)
  \/ ResetClimbReport
  \/ ResetLegacy

SpecDrift == InitRec /\ [][NextDrift]_vars

\* The update call of either class on pose.
UpdateWith(pose) == UpdateClimbReport(pose) \/ UpdateLegacy(pose)

\* The actions of the given types this update appended for limb l.
AppendedFor(l, types) ==
  SelectSeq(Appended(betaSequence, betaSequence'),
            LAMBDA a : a.limb = l /\ a.type \in types)

\* C36: after an update that processed a limb's keypoint, a limb that is
\* holding X has its keypoint within the holding distance of X, and a
\* HeelHook or Crossover the update records for the limb names a hold the
\* keypoint is within the holding distance of.
C36_HoldingIsNear ==
  [][\A pose \in DriftPoses : \A l \in LimbSet :
       (UpdateWith(pose) /\ LimbProcessed(l, pose)) =>
         /\ limbStates'[l].state \in {"holding", "Holding"} =>
              WithinHoldingDistance(recognizer, pose.kps[KeypointName(l)],
                                    limbStates'[l].holdId)
         /\ \A k \in 1..Len(AppendedFor(l, {"HeelHook", "Crossover"})) :
              LET X == AppendedFor(l, {"HeelHook", "Crossover"})[k].holdId
              IN /\ X # "?"
                 /\ WithinHoldingDistance(recognizer, pose.kps[KeypointName(l)], X)]_vars

\* The limb's keypoint is absent from the frame, or its confidence does not
\* exceed the threshold of the class (0.3; the legacy class takes 0.3 itself).
AbsentOrLow(l, pose) ==
  \/ pose.empty
  \/ IF recognizer = "climbReport"
     THEN pose.kps[KeypointName(l)].score <= 3
     ELSE pose.kps[KeypointName(l)].score < 3

\* C37: an update on a frame in which a limb's keypoint is absent or of low
\* confidence appends no action of any type for that limb.
C37_NoActionWithoutKeypoint ==
  [][\A pose \in DriftPoses : \A l \in LimbSet :
       (UpdateWith(pose) /\ AbsentOrLow(l, pose)) =>
         AppendedFor(l, {"Grab", "Step", "HeelHook", "Crossover"}) = <<>>]_vars

\* The contact part of C37, which both classes keep: no Grab or Step for
\* such a limb.
NoContactWithoutKeypoint ==
  [][\A pose \in DriftPoses : \A l \in LimbSet :
       (UpdateWith(pose) /\ AbsentOrLow(l, pose)) =>
         AppendedFor(l, {"Grab", "Step"}) = <<>>]_vars

\* C38: a limb that is stationary exactly at the recorded position (x, y) of
\* a hold, whatever the hold's size, is holding that hold after the update.
C38_HoldsAtRecordedPosition ==
  [][\A pose \in DriftPoses : \A l \in LimbSet : \A q \in 1..Len(RecHolds) :
       (/\ UpdateClimbReport(pose)
        /\ LimbProcessed(l, pose)
        /\ pose.kps[KeypointName(l)].x = RecHolds[q].x
        /\ pose.kps[KeypointName(l)].y = RecHolds[q].y
        /\ limbStates[l].lastPos = [x |-> RecHolds[q].x, y |-> RecHolds[q].y]) =>
         /\ limbStates'[l].state = "holding"
         /\ limbStates'[l].holdId = RecHolds[q].id]_vars

(***************************************************************************)
(* collectValidFrames (climb_report.ts)                                    *)
(***************************************************************************)

notCollect == <<coreVars, topVars, poseVars, reportVars, detectVars, compileVars,
               correctVars>>

\* The largest targetCount of a call (analyzeClimbVideo asks for 7 frames).
MaxTargetCount == 3
minConfidence == 4
AttemptsPerTarget == 5
SamplesPerTarget == 3

\* The time ranges of a call, in seconds: a long one, a short one, an empty
\* one and one that ends before it starts.
CollectRanges ==
  { [start |-> 0, end |-> 12], [start |-> 3, end |-> 4],
    [start |-> 5, end |-> 5], [start |-> 10, end |-> 4] }

\* A keypoint of the returned pose; found = FALSE when poses.find returns
\* undefined.
FoundKp(score) == [found |-> TRUE, score |-> score]
MissingKp == [found |-> FALSE, score |-> 0]

CollectPose(lw, rw, la, ra) ==
  [empty |-> FALSE, leftWrist |-> lw, rightWrist |-> rw, leftAnkle |-> la, rightAnkle |-> ra]

\* What estimatePoses can return: nobody (also when the detector throws,
\* which estimatePoses catches); all four keypoints at 0.9; at 0.5; the left
\* wrist at exactly 0.4; the right ankle missing; the right ankle at 0.3.
CollectPoses ==
  { [empty |-> TRUE, leftWrist |-> MissingKp, rightWrist |-> MissingKp,
     leftAnkle |-> MissingKp, rightAnkle |-> MissingKp],
    CollectPose(FoundKp(9), FoundKp(9), FoundKp(9), FoundKp(9)),
    CollectPose(FoundKp(5), FoundKp(5), FoundKp(5), FoundKp(5)),
    CollectPose(FoundKp(4), FoundKp(9), FoundKp(9), FoundKp(9)),
    CollectPose(FoundKp(9), FoundKp(9), FoundKp(9), MissingKp),
    CollectPose(FoundKp(9), FoundKp(9), FoundKp(9), FoundKp(3)) }

\* The times of the call are kept as multiples of sampleInterval / 2 =
\* rangeLength / (6 * targetCount): a time t is the integer t * TimeScale.
TimeScale == 2 * SamplesPerTarget * targetCount
rangeLength == timeRange.end - timeRange.start

\* Mutation of hasHands && hasFeet: a score of minConfidence is enough.
hasHandsAndFeetAtLeast(pose) ==
  /\ pose.leftWrist.found /\ pose.rightWrist.found
  /\ pose.leftWrist.score >= minConfidence /\ pose.rightWrist.score >= minConfidence
  /\ pose.leftAnkle.found /\ pose.rightAnkle.found
  /\ pose.leftAnkle.score >= minConfidence /\ pose.rightAnkle.score >= minConfidence

\* hasHands && hasFeet
hasHandsAndFeet(pose) ==
  /\ pose.leftWrist.found /\ pose.rightWrist.found
  /\ pose.leftWrist.score > minConfidence /\ pose.rightWrist.score > minConfidence
  /\ pose.leftAnkle.found /\ pose.rightAnkle.found
  /\ pose.leftAnkle.score > minConfidence /\ pose.rightAnkle.score > minConfidence

\* The call collectValidFrames(video, poseDetector, timeRange, targetCount),
\* up to the loop.
InitCollect ==
  /\ timeRange \in CollectRanges
  /\ targetCount \in 1..MaxTargetCount
  /\ currentTime = timeRange.start * TimeScale
  /\ estimates = 0 /\ validFrames = <<>> /\ cpc = "collecting"
  /\ CoreIdle
  /\ TopIdle
  /\ PoseIdle
  /\ ReportIdle
  /\ DetectIdle
  /\ CompileIdle
  /\ CorrectIdle

\* The loop condition.
CollectGoesOn ==
  /\ Len(validFrames) < targetCount
  /\ currentTime < timeRange.end * TimeScale
  /\ estimates < AttemptsPerTarget * targetCount

\* One iteration of the loop: seek, estimatePoses, keep or skip the frame.
CollectSample(pose) ==
  /\ cpc = "collecting"
  /\ CollectGoesOn
  /\ estimates' = estimates + 1
  /\ IF ~pose.empty /\ hasHandsAndFeet(pose)
     THEN /\ validFrames' = Append(validFrames,
                               [time |-> currentTime, leftWrist |-> pose.leftWrist,
                                rightWrist |-> pose.rightWrist,
                                leftAnkle |-> pose.leftAnkle,
                                rightAnkle |-> pose.rightAnkle])
          /\ currentTime' = currentTime + 3 * rangeLength
     ELSE /\ currentTime' = currentTime + rangeLength
          /\ UNCHANGED validFrames
  /\ UNCHANGED <<timeRange, targetCount, cpc, notCollect>>

\* The loop condition fails: return validFrames.
CollectReturn ==
  /\ cpc = "collecting"
  /\ ~CollectGoesOn
  /\ cpc' = "returned"
  /\ UNCHANGED <<timeRange, targetCount, currentTime, estimates, validFrames, notCollect>>

NextCollect ==
  \/ \E pose \in CollectPoses : CollectSample(pose)
  \/ CollectReturn

SpecCollect == InitCollect /\ [][NextCollect]_vars

\* The loop runs whenever it can: the awaited seek and estimate resolve.
SpecCollectLive == SpecCollect /\ WF_vars(NextCollect)

\* What C40 says of the frames collected so far and of the estimates made.
CollectedFramesValid ==
  /\ estimates <= 5 * targetCount
  /\ Len(validFrames) <= targetCount
  /\ \A k \in 1..Len(validFrames) :
       LET f == validFrames[k] IN
       /\ f.leftWrist.found /\ f.leftWrist.score > 4
       /\ f.rightWrist.found /\ f.rightWrist.score > 4
       /\ f.leftAnkle.found /\ f.leftAnkle.score > 4
       /\ f.rightAnkle.found /\ f.rightAnkle.score > 4
       /\ f.time >= timeRange.start * TimeScale
       /\ f.time < timeRange.end * TimeScale
       /\ k > 1 => validFrames[k - 1].time < f.time

\* C40: collectValidFrames returns, after at most 5 * targetCount pose
\* estimates, at most targetCount frames, each with both wrists and both
\* ankles above 0.4, with strictly increasing times inside the time range.
C40_CollectTerminates ==
  /\ <>(cpc = "returned")
  /\ []CollectedFramesValid

\* A call for three frames that returned because of the attempt limit: 15
\* estimates, one valid frame, and the time still inside the range.
C40_Witness ==
  /\ cpc = "returned"
  /\ targetCount = 3
  /\ estimates = 15
  /\ Len(validFrames) = 1
  /\ currentTime < timeRange.end * TimeScale

(***************************************************************************)
(* compileReport (climb_report.ts)                                         *)
(***************************************************************************)

notCompile == <<coreVars, topVars, poseVars, reportVars, detectVars, collectVars,
               correctVars>>

\* The longest attempts list compiled.
MaxAttempts == 4

ClimbAttempt(name, color, isSuccess, duration, reached) ==
  [videoName |-> name, routeColor |-> color, routeHoldCount |-> 5,
   isSuccess |-> isSuccess, duration |-> duration, maxProgress |-> reached]

\* The attempts analyzeClimbVideo and generateDailyReport produce: a route
\* climbed to the top, a route left at 60 %, the same for a second colour,
\* an attempt whose route was not found, an attempt whose analysis threw.
CompileAttempts ==
  { ClimbAttempt("A", "yellow", TRUE, 30, 100),
    ClimbAttempt("A", "yellow", FALSE, 20, 60),
    ClimbAttempt("A", "green", TRUE, 40, 100),
    ClimbAttempt("A", "green", FALSE, 10, 60),
    UnknownAttempt("A", 10),
    FailedAttempt("A") }

\* Mutation of colorMapOf: 'unknown' is counted as a colour.
RECURSIVE colorMapWithUnknown(_)
colorMapWithUnknown(as) ==
  IF as = <<>> THEN <<>>
  ELSE LET front == colorMapWithUnknown(SubSeq(as, 1, Len(as) - 1))
           a == as[Len(as)]
           won == IF a.isSuccess THEN 1 ELSE 0
       IN IF \E k \in 1..Len(front) : front[k].color = a.routeColor
          THEN LET k == CHOOSE q \in 1..Len(front) : front[q].color = a.routeColor
               IN [front EXCEPT ![k].attempts = @ + 1, ![k].successes = @ + won]
          ELSE Append(front, [color |-> a.routeColor, attempts |-> 1, successes |-> won])

\* colorMap after the loop over attempts, as the list of its entries in
\* insertion order.
RECURSIVE colorMapOf(_)
colorMapOf(as) ==
  IF as = <<>> THEN <<>>
  ELSE LET front == colorMapOf(SubSeq(as, 1, Len(as) - 1))
           a == as[Len(as)]
           won == IF a.isSuccess THEN 1 ELSE 0
       IN IF a.routeColor = "unknown" THEN front
          ELSE IF \E k \in 1..Len(front) : front[k].color = a.routeColor
          THEN LET k == CHOOSE q \in 1..Len(front) : front[q].color = a.routeColor
               IN [front EXCEPT ![k].attempts = @ + 1, ![k].successes = @ + won]
          ELSE Append(front, [color |-> a.routeColor, attempts |-> 1, successes |-> won])

\* total > 0 ? Math.round((part / total) * 100) : 0
roundedRate(part, total) ==
  IF total > 0 THEN (200 * part + total) \div (2 * total) ELSE 0

RECURSIVE SumDurations(_)
SumDurations(as) == IF as = <<>> THEN 0 ELSE Head(as).duration + SumDurations(Tail(as))

\* compileReport(attempts), without date and colorName.
compileReport(as) ==
  LET colorMap == colorMapOf(as)
      rows == [k \in 1..Len(colorMap) |->
                 [color |-> colorMap[k].color,
                  attempts |-> colorMap[k].attempts,
                  successes |-> colorMap[k].successes,
                  successRate |-> roundedRate(colorMap[k].successes, colorMap[k].attempts)]]
      won == SelectSeq(as, LAMBDA a : a.isSuccess)
      lost == SelectSeq(as, LAMBDA a : ~a.isSuccess)
  IN [totalAttempts |-> Len(as),
      successCount |-> Len(won),
      failCount |-> Len(lost),
      successRate |-> roundedRate(Len(won), Len(as)),
      uniqueRoutes |-> Len(colorMap),
      routeBreakdown |-> SortBy(rows, [k \in 1..Len(rows) |-> 0 - rows[k].attempts]),
      attempts |-> as,
      totalClimbTime |-> SumDurations(as)]

\* generateDailyReport has analysed its videos and calls compileReport.
InitCompile ==
  /\ cmAttempts \in SeqsUpTo(CompileAttempts, MaxAttempts)
  /\ cmReport = <<>> /\ cmpc = "called"
  /\ CoreIdle
  /\ TopIdle
  /\ PoseIdle
  /\ ReportIdle
  /\ DetectIdle
  /\ CollectIdle
  /\ CorrectIdle

CompileReturn ==
  /\ cmpc = "called"
  /\ cmReport' = <<compileReport(cmAttempts)>>
  /\ cmpc' = "returned"
  /\ UNCHANGED <<cmAttempts, notCompile>>

NextCompile == CompileReturn

SpecCompile == InitCompile /\ [][NextCompile]_vars

KnownAttempts == SelectSeq(cmAttempts, LAMBDA a : a.routeColor # "unknown")

RECURSIVE SumAttempts(_)
SumAttempts(rows) == IF rows = <<>> THEN 0 ELSE Head(rows).attempts + SumAttempts(Tail(rows))

\* C32: the compiled report has totalAttempts = number of attempts =
\* successCount + failCount; no row of routeBreakdown is for 'unknown'; every
\* row has 0 <= successes <= attempts and attempts >= 1; the rows' attempts
\* add up to the number of known-route attempts; uniqueRoutes is the number
\* of rows, one per colour; the rows are in non-increasing order of attempts;
\* every success rate is within 0..100.
C32_ReportTotals ==
  cmpc = "returned" =>
    LET r == cmReport[1]
        rows == r.routeBreakdown
    IN /\ r.totalAttempts = Len(cmAttempts)
       /\ r.totalAttempts = r.successCount + r.failCount
       /\ \A k \in 1..Len(rows) :
            /\ rows[k].color # "unknown"
            /\ 0 <= rows[k].successes /\ rows[k].successes <= rows[k].attempts
            /\ rows[k].attempts >= 1
            /\ rows[k].successRate \in 0..100
            /\ k > 1 => rows[k - 1].attempts >= rows[k].attempts
       /\ \A i, j \in 1..Len(rows) : i # j => rows[i].color # rows[j].color
       /\ SumAttempts(rows) = Len(KnownAttempts)
       /\ r.uniqueRoutes = Len(rows)
       /\ r.successRate \in 0..100

\* Four attempts: a failed yellow one, an unknown one and two green ones, one
\* of them successful; green is listed first with a rate of 50.
C32_Witness ==
  /\ cmpc = "returned"
  /\ Len(cmAttempts) = 4
  /\ cmAttempts[1].routeColor = "yellow"
  /\ cmAttempts[2].routeColor = "unknown"
  /\ cmReport[1].uniqueRoutes = 2
  /\ cmReport[1].routeBreakdown[1] =
       [color |-> "green", attempts |-> 2, successes |-> 1, successRate |-> 50]
  /\ cmReport[1].routeBreakdown[2].color = "yellow"
  /\ cmReport[1].successCount = 1 /\ cmReport[1].failCount = 3

(***************************************************************************)
(* correctColors (pose_detector.ts): re-colouring the detections by        *)
(* K-Means clustering of their sampled pixels                              *)
(***************************************************************************)

notCorrect == <<coreVars, topVars, poseVars, reportVars, detectVars, collectVars,
               compileVars>>

\* The longest predictions list corrected.
MaxPredictions == 3

V_THRESHOLD == 15
MAX_ROUTES == 8

\* Detector classes, as the parts between the dashes of the class name.
CorrectClasses == {<<"yellow", "purple", "hold">>, <<"green", "hold">>}

\* The pixels the sampling grid finds inside a prediction's box: none (the box
\* lies outside the image), only a shadowed one, or a shadowed and a lit one.
DarkPixel == [h |-> 60, s |-> 50, v |-> 10]
LitPixel == [h |-> 120, s |-> 50, v |-> 60]
SampledPixels == {<<>>, <<DarkPixel>>, <<DarkPixel, LitPixel>>}

\* The names hsvToColorName gives the centres of the assignments.
ClusterColorNames == {"green", "blue"}

Max2(a, b) == IF a >= b THEN a ELSE b

\* className.replace('-hold', '').split('-')[0]
getMainColorFromClass(className) ==
  LET at == {k \in 2..Len(className) : className[k] = "hold"}
      first == IF at = {} THEN 0 ELSE CHOOSE k \in at : \A o \in at : k <= o
      replaced == [k \in 1..(Len(className) - (IF first = 0 THEN 0 ELSE 1)) |->
                     IF first = 0 \/ k < first THEN className[k] ELSE className[k + 1]]
  IN replaced[1]

\* if (hsv.v > V_THRESHOLD) hsvPixels.push(hsv)
extractHoldPixels(boxPixels) == SelectSeq(boxPixels, LAMBDA hsv : hsv.v > V_THRESHOLD)

\* The features of the predictions from position i on; a prediction without
\* pixels is skipped.
RECURSIVE FeaturesFrom(_, _, _)
FeaturesFrom(predictions, image, i) ==
  IF i > Len(predictions) THEN <<>>
  ELSE (IF Len(extractHoldPixels(image[i])) = 0 THEN <<>>
        ELSE <<[index |-> i, prediction |-> predictions[i]]>>)
       \o FeaturesFrom(predictions, image, i + 1)

extractFeatures(predictions, image) == FeaturesFrom(predictions, image, 1)

determineK(predictions, features) ==
  LET uniqueClasses == {predictions[k].class : k \in 1..Len(predictions)}
      initialK == Cardinality(uniqueClasses)
  IN Max2(2, Min3(initialK, MAX_ROUTES, Len(features) \div 3))

\* The assignments kMeansClustering can return: one cluster per point when
\* there are no more points than assignments, else what the randomly seeded
\* iteration settles on.
kMeansClustering(features, K) ==
  LET n == Len(features)
  IN IF n <= K THEN {[i \in 1..n |-> i - 1]}
     ELSE [1..n -> 0..(K - 1)]

\* features.findIndex(f => f.index === predIdx), 0 for -1
findIndex(features, predIdx) ==
  IF \E f \in 1..Len(features) : features[f].index = predIdx
  THEN CHOOSE f \in 1..Len(features) :
         /\ features[f].index = predIdx
         /\ \A g \in 1..(f - 1) : features[g].index # predIdx
  ELSE 0

\* Mutation of applyCorrection: a prediction without a feature is put into
\* cluster 0.
applyCorrectionIntoFirst(predictions, features, assignments, clusterColors) ==
  [predIdx \in 1..Len(predictions) |->
     LET pred == predictions[predIdx]
         featureIdx == findIndex(features, predIdx)
         clusterId == IF featureIdx = 0 THEN 0 ELSE assignments[featureIdx]
     IN [class |-> pred.class, route_id |-> clusterId,
         corrected_color |-> clusterColors[clusterId]]]

applyCorrection(predictions, features, assignments, clusterColors) ==
  [predIdx \in 1..Len(predictions) |->
     LET pred == predictions[predIdx]
         featureIdx == findIndex(features, predIdx)
     IN IF featureIdx = 0
        THEN [class |-> pred.class, route_id |-> 0,
              corrected_color |-> getMainColorFromClass(pred.class)]
        ELSE [class |-> pred.class, route_id |-> assignments[featureIdx],
              corrected_color |-> clusterColors[assignments[featureIdx]]]]

\* The branch of correctColors that skips the clustering.
SkippedCorrection(predictions) ==
  [k \in 1..Len(predictions) |->
     [class |-> predictions[k].class, route_id |-> 0,
      corrected_color |-> getMainColorFromClass(predictions[k].class)]]

\* applyColorCorrection calls correctColors(allPredictions, frame.canvas).
InitCorrect ==
  /\ \E n \in 0..MaxPredictions :
       /\ ccPredictions \in [1..n -> [class : CorrectClasses]]
       /\ ccImage \in [1..n -> SampledPixels]
  /\ ccClusters = <<>> /\ ccCorrected = <<>> /\ ccpc = "called"
  /\ CoreIdle
  /\ TopIdle
  /\ PoseIdle
  /\ ReportIdle
  /\ DetectIdle
  /\ CollectIdle
  /\ CompileIdle

\* correctColors resolves.
CorrectReturn ==
  /\ ccpc = "called"
  /\ LET features == extractFeatures(ccPredictions, ccImage)
         K == determineK(ccPredictions, features)
     IN IF Len(ccPredictions) = 0
        THEN ccCorrected' = <<>> /\ ccClusters' = <<>>
        ELSE IF Len(features) < 2
        THEN ccCorrected' = SkippedCorrection(ccPredictions) /\ ccClusters' = <<>>
        ELSE \E assignments \in kMeansClustering(features, K) :
             \E clusterColors \in [0..(K - 1) -> ClusterColorNames] :
               /\ ccClusters' = assignments
               /\ ccCorrected' =
                    applyCorrection(ccPredictions, features, assignments, clusterColors)
  /\ ccpc' = "returned"
  /\ UNCHANGED <<ccPredictions, ccImage, notCorrect>>

NextCorrect == CorrectReturn

SpecCorrect == InitCorrect /\ [][NextCorrect]_vars

\* The predictions whose box holds a pixel brighter than the shadow threshold.
WithSample == {k \in 1..Len(ccPredictions) : \E j \in 1..Len(ccImage[k]) : ccImage[k][j].v > V_THRESHOLD}

\* The colour the detector gave prediction k: the first part of its class.
DetectorColor(k) == Head(ccPredictions[k].class)

\* C31: correctColors returns exactly one corrected prediction per input
\* prediction, in input order; when fewer than 2 predictions yield a valid
\* feature sample, clustering is skipped and every corrected colour is the
\* main colour of the prediction's detector class; a prediction without a
\* valid feature sample keeps its detector colour even when clustering runs.
C31_OnePerPrediction ==
  ccpc = "returned" =>
    /\ Len(ccCorrected) = Len(ccPredictions)
    /\ \A k \in 1..Len(ccPredictions) : ccCorrected[k].class = ccPredictions[k].class
    /\ Cardinality(WithSample) < 2 =>
         /\ ccClusters = <<>>
         /\ \A k \in 1..Len(ccPredictions) : ccCorrected[k].corrected_color = DetectorColor(k)
    /\ \A k \in 1..Len(ccPredictions) :
         k \notin WithSample => ccCorrected[k].corrected_color = DetectorColor(k)

\* Clustering ran on three predictions: the one in shadow kept "yellow", and a
\* lit "yellow-purple-hold" was re-coloured "blue".
C31_Witness ==
  /\ ccpc = "returned"
  /\ Len(ccPredictions) = 3
  /\ ccClusters = <<0, 1>>
  /\ WithSample = {1, 3}
  /\ ccPredictions[2].class = <<"yellow", "purple", "hold">>
  /\ ccCorrected[2].corrected_color = "yellow"
  /\ ccPredictions[3].class = <<"yellow", "purple", "hold">>
  /\ ccCorrected[3].corrected_color = "blue"
  /\ ccCorrected[1].corrected_color = "green"

====
